---------------------------- MODULE Spec2Model ----------------------------
(***************************************************************************)
(* Household electricity demand profiles (egon.data.processing.hh_demand). *)
(*                                                                         *)
(* The model follows houseprofiles_in_census_cells: the cell household     *)
(* table df_zensus_cells, the sampler get_cell_demand_metadata /           *)
(* get_cell_demand_profile_ids, the reconciler                             *)
(* adjust_to_demand_regio_nuts3_annual and the replacement of the table    *)
(* demand.household_electricity_profiles_in_census_cells.                  *)
(*                                                                         *)
(* Real numbers are exact rationals [nan, n, d]; a float that is not a     *)
(* number is [nan |-> TRUE]; a factor also knows "inf".                    *)
(***************************************************************************)
EXTENDS Integers, Sequences, FiniteSets, TLC

VARIABLES
    dist_households,  \* df_dist_households before normalisation: hh_type -> households
    households_typ,   \* df_households_typ after the merge with df_grid_id (rows)
    demand_regio,     \* df_demand_regio: <<year, nuts3>> -> demand_mwha
    rng,              \* hidden state of the process-wide generator of module random
    zensus_cells,     \* df_zensus_cells: rows sorted by grid_id
    metadata,         \* df_cell_demand_metadata: grid_id -> row
    cell_draws,       \* per grid_id, the list of (hh_type, ids) of lines 569-575
    cells_todo,       \* grid_ids the loop of get_cell_demand_metadata has yet to visit
    regions_todo,     \* nuts3 groups the loop of the reconciler has yet to visit
    adjusted,         \* nuts3 groups the reconciler has visited
    table,            \* demand.household_electricity_profiles_in_census_cells
    table_before,     \* the table as the run found it
    pc,               \* position in the run
    err,              \* the exception that ended the run, "" if none
    runs,             \* finished runs of get_cell_demand_metadata (seed, result)
    seed,             \* argument of the last random.seed call, -1 if none
    clean,            \* no draw from the generator since the last random.seed
    profile_columns,  \* columns (hh_type, id) of df_profiles as read from the file
    subst_map,        \* MapZensusGridDistricts: cell_id -> subst_id, 0 if no row
    etrago,           \* demand.egon_etrago_electricity_households
    agg,              \* the call of mv_grid_district_HH_electricity_load under way
    shares,           \* df_dist_households while lines 831-835 normalise it
    groups_todo,      \* census codes the loop of lines 831-835 has yet to visit
    households,       \* the census table of persons: (type, persons, age) -> count
    df_zensus,        \* the table after process_nuts1_zensus_data
    df_hh_types_nad_abs,           \* get_hh_dist(..., multi_adjust=False, relative=False)
    df_hh_size,                    \* rows of the HHGROESS_KLASS query
    mapping_people_in_households,  \* hh_type -> persons per household
    df_households_by_type          \* result of inhabitants_to_households

vars == <<dist_households, households_typ, demand_regio, rng, zensus_cells,
          metadata, cell_draws, cells_todo, regions_todo, adjusted, table,
          table_before, pc, err, runs, seed, clean, profile_columns,
          subst_map, etrago, agg, shares, groups_todo, households, df_zensus,
          df_hh_types_nad_abs, df_hh_size, mapping_people_in_households,
          df_households_by_type>>

\* the state of the stage houseprofiles_in_census_cells and of the generator
stageVars == <<dist_households, households_typ, demand_regio, rng,
               zensus_cells, metadata, cell_draws, cells_todo, regions_todo,
               adjusted, table, table_before, pc, err, runs, seed, clean>>

\* the tables of lines 788-829, from the census table of persons to the
\* households per type
mapperVars == <<households, df_zensus, df_hh_types_nad_abs, df_hh_size,
                mapping_people_in_households, df_households_by_type>>

\* the state the stage does not touch from line 836 on
otherVars == <<profile_columns, subst_map, etrago, agg, shares, groups_todo,
               mapperVars>>

---------------------------------------------------------------------------
\* Bounds of the model

\* grid cells of the run
NumCells == 2
\* largest quantity (hh_5types) of a census row
MaxHH == 2
\* largest number of households of one type in df_dist_households
MaxDist == 2
\* largest demand_mwha of a (year, nuts3) pair
MaxDemand == 1
\* number of states of the generator
RngMod == 2
\* rows of the df_cell handed to get_cell_demand_profile_ids on its own
MaxRows == 2
\* largest expected count of such a row, in units of 1/ExpDen
MaxCount == 6
\* resolution of the expected counts of such a row
ExpDen == 4

\* number of nonzero entries of the census table of persons
MaxEntries == 2

\* largest person count of one entry
MaxPeople == 2
\* substations of the grid-district map
NumSubst == 2
\* calls of mv_grid_district_HH_electricity_load in one behaviour
MaxCalls == 2

---------------------------------------------------------------------------
\* Fixed data

GridIds == 1..NumCells

\* NUTS-3 regions in the sort order of groupby
Nuts3Codes == <<"DE111", "DE112">>

Nuts3Set == {Nuts3Codes[i] : i \in 1..Len(Nuts3Codes)}

\* vg250_nuts3 of a cell the LEFT JOIN matched with no region
NoRegion == "NULL"

\* value of an object column that was never assigned
NaNText == "NaN"

ScenarioYears == {2035, 2050}

MAPPING_ZENSUS_HH_SUBGROUPS ==
    [code \in 1..5 |->
        CASE code = 1 -> <<"SR", "SO">>
          [] code = 2 -> <<"PR", "PO">>
          [] code = 3 -> <<"SK">>
          [] code = 4 -> <<"P1", "P2", "P3">>
          [] code = 5 -> <<"OR", "OO">>]

\* characteristics_code values of the census rows of the model
ZensusCodes == {1}

SeqToSet(s) == {s[i] : i \in 1..Len(s)}

HHTypes == UNION {SeqToSet(MAPPING_ZENSUS_HH_SUBGROUPS[c]) : c \in ZensusCodes}

\* columns (hh_type, id) of df_profiles: ids 0 .. n-1 per type
ProfileColumns == {<<"SR", 0>>, <<"SR", 1>>, <<"SO", 0>>}

\* columns a profile file can hold
AllColumns == ProfileColumns \cup {<<"SR", 2>>, <<"SO", 1>>}

\* df_profiles: one series in Wh per column
DfProfiles ==
    [col \in AllColumns |->
        CASE col = <<"SR", 0>> -> <<1, 2>>
          [] col = <<"SR", 1>> -> <<2, 3>>
          [] col = <<"SO", 0>> -> <<3, 4>>
          [] col = <<"SR", 2>> -> <<4, 5>>
          [] col = <<"SO", 1>> -> <<5, 6>>]

\* pool_size = df_profiles.groupby(level=0, axis=1).size()
PoolSize(hh_type) == Cardinality({col \in profile_columns : col[1] = hh_type})

\* df_profiles.loc[:, ids] finds every listed column
Resolves(ids) == \A i \in 1..Len(ids) : ids[i] \in profile_columns

---------------------------------------------------------------------------
\* Numbers

NaN == [nan |-> TRUE, n |-> 0, d |-> 1]

Rat(n, d) == [nan |-> FALSE, n |-> n, d |-> d]

RECURSIVE GCD(_, _)
GCD(a, b) == IF b = 0 THEN a ELSE GCD(b, a % b)

\* np.rint on n/d >= 0 followed by astype(int): nearest integer, halves to even
RintTruncated(n, d) == n \div d

Rint(n, d) ==
    LET q == n \div d
        r == n % d
    IN  IF 2 * r < d THEN q
        ELSE IF 2 * r > d THEN q + 1
        ELSE IF q % 2 = 0 THEN q ELSE q + 1

\* what astype(int) makes of NaN: the cast is undefined, the builds give the
\* most negative integer (any negative value acts alike below) or 0
NanCasts == {-1, 0}

---------------------------------------------------------------------------
\* The generator of module random

RngStates == 0..(RngMod - 1)

\* _randbelow(m) in state s
RandBelow(s, m) == s % m

\* the state after one draw
RngNext(s) == (s + 1) % RngMod

\* random.sample refuses a sample larger than the population or negative
SampleRefusedNever(k, n) == FALSE

SampleRefused(k, n) == k < 0 \/ k > n

\* the selection loop of random.sample over pool[0..m-1]
RECURSIVE SampleLoop(_, _, _, _, _)
SampleLoop(pool, m, k, s, acc) ==
    IF k <= 0 \/ m <= 0 THEN [ids |-> acc, rng |-> s]
    ELSE LET j == RandBelow(s, m) + 1
         IN  SampleLoop([pool EXCEPT ![j] = pool[m]], m - 1, k - 1,
                        RngNext(s), Append(acc, pool[j]))

\* random.sample(range(n), k) in state s
RandomSample(s, n, k) == SampleLoop([i \in 1..n |-> i - 1], n, k, s, <<>>)

---------------------------------------------------------------------------
\* get_cell_demand_profile_ids

\* sq of one row: np.rint(hh_10types).astype(int)
SampleSize(row, nancast) ==
    IF row.hh_10types.nan THEN nancast
    ELSE Rint(row.hh_10types.n, row.hh_10types.d)

\* astype(int) on the float n/d >= 0: the fraction is cut off
AstypeInt(n, d) == n \div d

\* sq of one row in hh_demand_profiles_tools: hh_10types.astype(int)
SampleSizeTools(row, nancast) ==
    IF row.hh_10types.nan THEN nancast
    ELSE AstypeInt(row.hh_10types.n, row.hh_10types.d)

\* the list comprehension of lines 569-575, row by row
RECURSIVE DrawRows(_, _, _, _, _)
DrawRows(df_cell, i, s, nancast, acc) ==
    IF i > Len(df_cell) THEN [ok |-> TRUE, draws |-> acc, rng |-> s]
    ELSE LET row == df_cell[i]
             sq  == SampleSize(row, nancast)
             n   == PoolSize(row.hh_type)
         IN  IF SampleRefused(sq, n)
             THEN [ok |-> FALSE, draws |-> acc, rng |-> s]
             ELSE LET smp == RandomSample(s, n, sq)
                  IN  DrawRows(df_cell, i + 1, smp.rng, nancast,
                               Append(acc, [hh_type |-> row.hh_type,
                                            ids |-> smp.ids]))

\* lines 578-582: the flat list of (hh_type, id)
RECURSIVE FlattenFirstOnly(_)
FlattenFirstOnly(draws) ==
    IF draws = <<>> THEN <<>>
    ELSE (IF Head(draws).ids = <<>> THEN <<>>
          ELSE << <<Head(draws).hh_type, Head(draws).ids[1]>> >>)
         \o FlattenFirstOnly(Tail(draws))

RECURSIVE Flatten(_)
Flatten(draws) ==
    IF draws = <<>> THEN <<>>
    ELSE [i \in 1..Len(Head(draws).ids) |->
             <<Head(draws).hh_type, Head(draws).ids[i]>>]
         \o Flatten(Tail(draws))

GetCellDemandProfileIds(df_cell, s, nancast) ==
    LET r == DrawRows(df_cell, 1, s, nancast, <<>>)
    IN  [ok |-> r.ok, draws |-> r.draws, ids |-> Flatten(r.draws), rng |-> r.rng]

---------------------------------------------------------------------------
\* Cell household model: lines 831-835 and 875-896 of houseprofiles_in_census_cells

\* federal state (lan.gen) of a region; the LEFT JOIN gives none to no region
GenOf(nuts3) == IF nuts3 = NoRegion THEN NoRegion ELSE "Baden-Wuerttemberg"

\* lan.nuts of the same join: LEFT(vg250_nuts3, 3)
Nuts1Of(nuts3) == IF nuts3 = NoRegion THEN NoRegion ELSE "DE1"

\* the list of MAPPING_ZENSUS_HH_SUBGROUPS that holds hh_type
SubgroupOf(hh_type) ==
    CHOOSE grp \in {MAPPING_ZENSUS_HH_SUBGROUPS[c] : c \in 1..5} :
        hh_type \in SeqToSet(grp)

RECURSIVE SumOver(_, _)
SumOver(f, S) ==
    IF S = {} THEN 0
    ELSE LET x == CHOOSE y \in S : TRUE IN f[x] + SumOver(f, S \ {x})

\* df_dist_households.loc[value].div(df_dist_households.loc[value].sum())
TypeShareOverAll(dist, hh_type) ==
    LET total == SumOver(dist, DOMAIN dist)
    IN  IF total = 0 THEN NaN ELSE Rat(dist[hh_type], total)

TypeShare(dist, hh_type) ==
    LET total == SumOver(dist, SeqToSet(SubgroupOf(hh_type)) \cap DOMAIN dist)
    IN  IF total = 0 THEN NaN ELSE Rat(dist[hh_type], total)

\* hh_5types * df_dist_households.loc[typ, country]
ExpectedCount(hh_5types, share) ==
    IF share.nan THEN NaN ELSE Rat(hh_5types * share.n, share.d)

RECURSIVE ConcatAll(_)
ConcatAll(ss) == IF ss = <<>> THEN <<>> ELSE Head(ss) \o ConcatAll(Tail(ss))

\* the rows one (gen, characteristics_code) group adds for typ, for one grid_id;
\* groupby drops the rows whose gen is NULL
RowsFor(rows, dist, g, code, typ) ==
    LET Member(r) == r.grid_id = g /\ r.code = code /\ GenOf(r.nuts3) # NoRegion
        sel == SelectSeq(rows, Member)
    IN  [i \in 1..Len(sel) |->
            [grid_id    |-> g,
             cell_id    |-> sel[i].cell_id,
             code       |-> code,
             hh_type    |-> typ,
             hh_10types |-> ExpectedCount(sel[i].hh_5types, TypeShare(dist, typ)),
             nuts3      |-> sel[i].nuts3]]

\* df_zensus_cells after sort_values(by=["grid_id", "characteristics_code"])
ZensusCells(rows, dist) ==
    ConcatAll([g \in GridIds |->
        ConcatAll([code \in 1..5 |->
            ConcatAll([k \in 1..Len(MAPPING_ZENSUS_HH_SUBGROUPS[code]) |->
                RowsFor(rows, dist, g, code,
                        MAPPING_ZENSUS_HH_SUBGROUPS[code][k])])])])

---------------------------------------------------------------------------
\* get_cell_demand_metadata

\* a factor: "nan" (unset or 0/0), "inf" (x/0) or the number n/d in lowest terms
FactorNaN == [k |-> "nan", n |-> 0, d |-> 1]

FactorInf == [k |-> "inf", n |-> 0, d |-> 1]

FactorNum(n, d) == [k |-> "num", n |-> n \div GCD(n, d), d |-> d \div GCD(n, d)]

\* grid_ids of a table in order of appearance (they are sorted): .unique()
RECURSIVE UniqueGridIds(_, _)
UniqueGridIds(rows, seen) ==
    IF rows = <<>> THEN <<>>
    ELSE IF Head(rows).grid_id \in seen THEN UniqueGridIds(Tail(rows), seen)
    ELSE <<Head(rows).grid_id>>
         \o UniqueGridIds(Tail(rows), seen \cup {Head(rows).grid_id})

\* the empty frame of lines 618-630
EmptyMetadata(rows) ==
    [g \in SeqToSet(UniqueGridIds(rows, {})) |->
        [sampled          |-> FALSE,
         cell_profile_ids |-> <<>>,
         cell_id          |-> 0,
         nuts3            |-> NaNText,
         nuts1            |-> NaNText,
         factor_2035      |-> FactorNaN,
         factor_2050      |-> FactorNaN]]

\* one group of df_zensus_cells.groupby(by="grid_id")
DfCell(rows, g) == LET Member(r) == r.grid_id = g IN SelectSeq(rows, Member)

\* groups of df_cell_demand_metadata.groupby(by="nuts3"), sorted; a nuts3 that
\* is no value forms no group
NutsGroupsOfDemand(meta) ==
    LET Present(code) == \E y \in ScenarioYears : <<y, code>> \in DOMAIN demand_regio
    IN  SelectSeq(Nuts3Codes, Present)

NutsGroups(meta) ==
    LET Present(code) == \E g \in DOMAIN meta : meta[g].nuts3 = code
    IN  SelectSeq(Nuts3Codes, Present)

---------------------------------------------------------------------------
\* adjust_to_demand_regio_nuts3_annual

\* grid_ids of the frame in index order
IndexOrder(meta) == LET InIndex(g) == g \in DOMAIN meta
                    IN  SelectSeq([g \in GridIds |-> g], InIndex)

\* df_nuts3.loc[:, "cell_profile_ids"].sum(): the lists of the group, chained
Nuts3ProfileIds(meta, nuts3) ==
    LET InGroup(g) == meta[g].nuts3 = nuts3
        cells == SelectSeq(IndexOrder(meta), InGroup)
    IN  ConcatAll([i \in 1..Len(cells) |-> meta[cells[i]].cell_profile_ids])

RECURSIVE SeqSum(_)
SeqSum(s) == IF s = <<>> THEN 0 ELSE Head(s) + SeqSum(Tail(s))

\* df_profiles.loc[:, ids].sum().sum(): every listed column, each time it is listed
ProfilesSumAnnualOnce(ids) ==
    SeqSum([i \in 1..Len(ids) |->
               IF \E j \in 1..(i - 1) : ids[j] = ids[i] THEN 0
               ELSE SeqSum(DfProfiles[ids[i]])])

ProfilesSumAnnual(ids) == SeqSum([i \in 1..Len(ids) |-> SeqSum(DfProfiles[ids[i]])])

\* demand_mwha * 1e3 / (nuts3_profiles_sum_annual / 1e3) in float arithmetic
ScalingFactorPerKilo(demand_mwha, sum_annual) ==
    IF sum_annual = 0
    THEN IF demand_mwha = 0 THEN FactorNaN ELSE FactorInf
    ELSE FactorNum(demand_mwha * 1000, sum_annual)

ScalingFactor(demand_mwha, sum_annual) ==
    IF sum_annual = 0
    THEN IF demand_mwha = 0 THEN FactorNaN ELSE FactorInf
    ELSE FactorNum(demand_mwha * 1000 * 1000, sum_annual)

\* df_demand_regio.loc[(year, nuts3_id), "demand_mwha"] raises KeyError
\* for a key the table lacks
LookupDefaulting(demand, year, nuts3) ==
    IF <<year, nuts3>> \in DOMAIN demand
    THEN [ok |-> TRUE, demand_mwha |-> demand[<<year, nuts3>>]]
    ELSE [ok |-> TRUE, demand_mwha |-> 1]

DemandLookup(demand, year, nuts3) ==
    IF <<year, nuts3>> \in DOMAIN demand
    THEN [ok |-> TRUE, demand_mwha |-> demand[<<year, nuts3>>]]
    ELSE [ok |-> FALSE, demand_mwha |-> 0]

\* df.loc[nuts3_cell_ids, column] = factor
SetFactorOfGroupOnly(meta, nuts3, year, factor) ==
    [g \in {h \in DOMAIN meta : meta[h].nuts3 = nuts3} |->
        IF year = 2035 THEN [meta[g] EXCEPT !.factor_2035 = factor]
        ELSE [meta[g] EXCEPT !.factor_2050 = factor]]

SetFactor(meta, nuts3, year, factor) ==
    [g \in DOMAIN meta |->
        IF meta[g].nuts3 # nuts3 THEN meta[g]
        ELSE IF year = 2035 THEN [meta[g] EXCEPT !.factor_2035 = factor]
        ELSE [meta[g] EXCEPT !.factor_2050 = factor]]

---------------------------------------------------------------------------
\* The table demand.household_electricity_profiles_in_census_cells

\* the decimal digits of a natural number, most significant first
RECURSIVE Digits(_)
Digits(i) == IF i < 10 THEN <<i>> ELSE Append(Digits(i \div 10), i % 10)

\* a value of a String column that was given the integer i: its numeral
DbText(i) == [text |-> Digits(i)]

\* df_cell_demand_metadata.to_dict(orient="records") bound to the columns of
\* HouseholdElectricityProfilesInCensusCells
TableRows(meta) ==
    {[cell_id          |-> meta[g].cell_id,
      grid_id          |-> g,
      cell_profile_ids |-> [i \in 1..Len(meta[g].cell_profile_ids) |->
                               <<meta[g].cell_profile_ids[i][1],
                                 DbText(meta[g].cell_profile_ids[i][2])>>],
      nuts3            |-> meta[g].nuts3,
      nuts1            |-> meta[g].nuts1,
      factor_2035      |-> meta[g].factor_2035,
      factor_2050      |-> meta[g].factor_2050] : g \in DOMAIN meta}

NoTable == [exists |-> FALSE, rows |-> {}]

\* what an earlier run left: one cell holding ("SO", 0), 1 MWh in both years
EarlierTable ==
    [exists |-> TRUE,
     rows   |-> {[cell_id          |-> 101,
                  grid_id          |-> 1,
                  cell_profile_ids |-> <<<<"SO", DbText(0)>>>>,
                  nuts3            |-> "DE111",
                  nuts1            |-> "DE1",
                  factor_2035      |-> FactorNum(1000000, 7),
                  factor_2050      |-> FactorNum(1000000, 7)]}]

---------------------------------------------------------------------------
\* The table demand.egon_etrago_electricity_households and the call of
\* mv_grid_district_HH_electricity_load

NoEtrago == [exists |-> FALSE, rows |-> {}]

\* the tables of lines 788-829 are not part of the run
MapperIdle ==
    /\ households = <<>>
    /\ df_zensus = <<>>
    /\ df_hh_types_nad_abs = <<>>
    /\ df_hh_size = <<>>
    /\ mapping_people_in_households = <<>>
    /\ df_households_by_type = <<>>

\* no call under way and none made yet
AggIdle ==
    [pc            |-> "idle",
     scenario_name |-> "",
     scenario_year |-> 0,
     version       |-> "",
     drop_table    |-> FALSE,
     rerun         |-> FALSE,
     mvgd_profiles |-> <<>>,
     err           |-> "",
     calls         |-> 0]

\* substations; 0 stands for a cell without a row in MapZensusGridDistricts
SubstIds == 1..NumSubst

\* (scenario_name, scenario_year) pairs the stage is called with
Scenarios == {[name |-> "eGon2035", year |-> 2035],
              [name |-> "eGon100RE", year |-> 2050]}

Versions == {"0.0.0"}

\* the number a sequence of decimal digits denotes
RECURSIVE DigitsValue(_)
DigitsValue(ds) ==
    IF ds = <<>> THEN 0
    ELSE 10 * DigitsValue(SubSeq(ds, 1, Len(ds) - 1)) + ds[Len(ds)]

\* int(profile_id) on a value read from the String array
FromDbText(x) == DigitsValue(x.text)

\* get_houseprofiles_in_census_cells: the rows of the cell table by cell_id,
\* cell_profile_ids converted to (cat, int(profile_id))
GetHouseprofilesWithProfiles(tbl) ==
    [c \in {r.cell_id : r \in {x \in tbl.rows : x.cell_profile_ids # <<>>}} |->
        LET row == CHOOSE r \in tbl.rows : r.cell_id = c
        IN  [grid_id          |-> row.grid_id,
             cell_profile_ids |-> [i \in 1..Len(row.cell_profile_ids) |->
                                      <<row.cell_profile_ids[i][1],
                                        FromDbText(row.cell_profile_ids[i][2])>>],
             nuts3            |-> row.nuts3,
             nuts1            |-> row.nuts1,
             factor_2035      |-> row.factor_2035,
             factor_2050      |-> row.factor_2050]]

GetHouseprofilesInCensusCells(tbl) ==
    [c \in {r.cell_id : r \in tbl.rows} |->
        LET row == CHOOSE r \in tbl.rows : r.cell_id = c
        IN  [grid_id          |-> row.grid_id,
             cell_profile_ids |-> [i \in 1..Len(row.cell_profile_ids) |->
                                      <<row.cell_profile_ids[i][1],
                                        FromDbText(row.cell_profile_ids[i][2])>>],
             nuts3            |-> row.nuts3,
             nuts1            |-> row.nuts1,
             factor_2035      |-> row.factor_2035,
             factor_2050      |-> row.factor_2050]]

\* cells_query, lines 998-1012: the rows of the cell table joined with the
\* map on cell_id, cell_profile_ids converted to (cat, int(profile_id))
CellsQuery(tbl, map) ==
    {[cell_id          |-> row.cell_id,
      subst_id         |-> map[row.cell_id],
      cell_profile_ids |-> [i \in 1..Len(row.cell_profile_ids) |->
                               <<row.cell_profile_ids[i][1],
                                 FromDbText(row.cell_profile_ids[i][2])>>],
      nuts3            |-> row.nuts3,
      factor_2035      |-> row.factor_2035,
      factor_2050      |-> row.factor_2050] :
     row \in {r \in tbl.rows : r.cell_id \in DOMAIN map /\ map[r.cell_id] # 0}}

\* column f"factor_{year}" of a row
FactorColumn(row, year) ==
    IF year = 2035 THEN row.factor_2035 ELSE row.factor_2050

\* np.zeros(timesteps) with timesteps = len(df_profiles)
Timesteps == Len(DfProfiles[<<"SR", 0>>])

ZeroSeries == [t \in 1..Timesteps |-> FactorNum(0, 1)]

\* keys of groupby(by=["nuts3", f"factor_{year}"]): rows with a missing
\* nuts3 or a factor that is not a number belong to no group
GroupKeys(data, year) ==
    {<<row.nuts3, FactorColumn(row, year)>> :
        row \in {r \in data : /\ r.nuts3 \in Nuts3Set
                               /\ FactorColumn(r, year).k # "nan"}}

\* order of the group keys: nuts3 first, then the factor
KeyBefore(a, b) ==
    LET Pos(code) == CHOOSE i \in 1..Len(Nuts3Codes) : Nuts3Codes[i] = code
    IN  \/ Pos(a[1]) < Pos(b[1])
        \/ /\ a[1] = b[1]
           /\ a[2] # b[2]
           /\ \/ b[2].k = "inf"
              \/ /\ a[2].k = "num" /\ b[2].k = "num"
                 /\ a[2].n * b[2].d < b[2].n * a[2].d

RECURSIVE SortedKeys(_)
SortedKeys(keys) ==
    IF keys = {} THEN <<>>
    ELSE LET first == CHOOSE a \in keys : \A b \in keys \ {a} : KeyBefore(a, b)
         IN  <<first>> \o SortedKeys(keys \ {first})

\* df["cell_profile_ids"].sum() of one group: the lists chained, by cell_id
RECURSIVE GroupProfileIds(_)
GroupProfileIds(rows) ==
    IF rows = {} THEN <<>>
    ELSE LET r == CHOOSE x \in rows : \A y \in rows : x.cell_id <= y.cell_id
         IN  r.cell_profile_ids \o GroupProfileIds(rows \ {r})

\* df_profiles.loc[:, ids].sum(axis=1): per timestep, every listed column
ProfilesSumPerStep(ids) ==
    [t \in 1..Timesteps |-> SeqSum([i \in 1..Len(ids) |-> DfProfiles[ids[i]][t]])]

\* x * factor / 1e3 in float arithmetic, x a sum of Wh
ScaleValue(x, factor) ==
    IF factor.k = "inf"
    THEN IF x = 0 THEN FactorNaN ELSE FactorInf
    ELSE FactorNum(x * factor.n, factor.d * 1000)

\* a + b in float arithmetic
AddValueKeepingLast(a, b) == b

AddValue(a, b) ==
    IF a.k = "nan" \/ b.k = "nan" THEN FactorNaN
    ELSE IF a.k = "inf" \/ b.k = "inf" THEN FactorInf
    ELSE FactorNum(a.n * b.d + b.n * a.d, a.d * b.d)

\* the loop of lines 761-770 over the groups in keys
RECURSIVE LoadLoop(_, _, _, _)
LoadLoop(data, year, keys, full_load) ==
    IF keys = <<>> THEN full_load
    ELSE LET key  == Head(keys)
             df   == {r \in data : r.nuts3 = key[1] /\ FactorColumn(r, year) = key[2]}
             sums == ProfilesSumPerStep(GroupProfileIds(df))
             part_load == [t \in 1..Timesteps |-> ScaleValue(sums[t], key[2])]
         IN  LoadLoop(data, year, Tail(keys),
                      [t \in 1..Timesteps |-> AddValue(full_load[t], part_load[t])])

\* get_load_timeseries(df_profiles, data, data.index, year, peak_load_only=False)
GetLoadTimeseries(data, year) ==
    LoadLoop(data, year, SortedKeys(GroupKeys(data, year)), ZeroSeries)

\* every profile the loop of lines 761-770 looks up is a column of
\* df_profiles: the lists of the rows that belong to a group
DataResolvesAny(data, year) == TRUE

DataResolves(data, year) ==
    \A r \in data :
        <<r.nuts3, FactorColumn(r, year)>> \in GroupKeys(data, year) =>
            Resolves(r.cell_profile_ids)

\* mvgd_profiles_dict, lines 1018-1027: one series per subst_id of cells
MvgdProfiles(cells, year) ==
    [sid \in {r.subst_id : r \in cells} |->
        GetLoadTimeseries({r \in cells : r.subst_id = sid}, year)]

\* mvgd_profiles.to_dict(orient="records") with version and scn_name added
EtragoRows(profiles, version, scn_name) ==
    {[version  |-> version,
      subst_id |-> sid,
      scn_name |-> scn_name,
      p_set    |-> profiles[sid]] : sid \in DOMAIN profiles}

\* the primary key (version, subst_id, scn_name)
KeyOf(row) == <<row.version, row.subst_id, row.scn_name>>

---------------------------------------------------------------------------
\* Inputs

Regions == Nuts3Set \cup {NoRegion}

\* df_households_typ after the merge: one census row per grid cell
HouseholdTables ==
    {[g \in GridIds |->
         [grid_id   |-> g,
          cell_id   |-> 100 + g,
          code      |-> f[g][1],
          hh_5types |-> f[g][2],
          nuts3     |-> f[g][3]]] :
     f \in [GridIds -> ZensusCodes \X (1..MaxHH) \X Regions]}

\* df_demand_regio: any table over the years and regions
DemandTables ==
    UNION {[keys -> 0..MaxDemand] : keys \in SUBSET (ScenarioYears \X Nuts3Set)}

\* a df_cell of grid cell 1 given to the sampler directly
CellRows ==
    {[grid_id    |-> 1,
      cell_id    |-> 101,
      code       |-> 1,
      hh_type    |-> t,
      hh_10types |-> Rat(n, ExpDen),
      nuts3      |-> "DE111"] : t \in HHTypes, n \in 0..MaxCount}

CellTables == UNION {[1..len -> CellRows] : len \in 1..MaxRows}

---------------------------------------------------------------------------
\* houseprofiles_in_census_cells, step by step

\* lines 875-896 with at least one row
BuildZensusCells ==
    /\ pc = "cells"
    /\ ZensusCells(households_typ, dist_households) # <<>>
    /\ zensus_cells' = ZensusCells(households_typ, dist_households)
    /\ pc' = "frame"
    /\ UNCHANGED <<dist_households, households_typ, demand_regio, rng, metadata,
                   cell_draws, cells_todo, regions_todo, adjusted, table,
                   table_before, err, runs, seed, clean>>
    /\ UNCHANGED otherVars

\* lines 875-896 with no row: sort_values finds no column grid_id
BuildZensusCellsEmpty ==
    /\ pc = "cells"
    /\ ZensusCells(households_typ, dist_households) = <<>>
    /\ pc' = "failed"
    /\ err' = "KeyError"
    /\ UNCHANGED <<dist_households, households_typ, demand_regio, rng,
                   zensus_cells, metadata, cell_draws, cells_todo, regions_todo,
                   adjusted, table, table_before, runs, seed, clean>>
    /\ UNCHANGED otherVars

\* get_cell_demand_metadata, lines 618-632
NewMetadataFrame ==
    /\ pc = "frame"
    /\ metadata' = EmptyMetadata(zensus_cells)
    /\ cell_draws' = [g \in DOMAIN EmptyMetadata(zensus_cells) |-> <<>>]
    /\ cells_todo' = UniqueGridIds(zensus_cells, {})
    /\ pc' = "sample"
    /\ UNCHANGED <<dist_households, households_typ, demand_regio, rng,
                   zensus_cells, regions_todo, adjusted, table, table_before,
                   err, runs, seed, clean>>
    /\ UNCHANGED otherVars

\* one turn of the loop of lines 634-653
SampleCellOk ==
    /\ pc = "sample"
    /\ cells_todo # <<>>
    /\ \E nancast \in NanCasts :
         LET g       == Head(cells_todo)
             df_cell == DfCell(zensus_cells, g)
             r       == GetCellDemandProfileIds(df_cell, rng, nancast)
         IN  /\ r.ok
             /\ metadata' = [metadata EXCEPT ![g] =
                    [@ EXCEPT !.sampled = TRUE,
                              !.cell_profile_ids = r.ids,
                              !.cell_id = df_cell[1].cell_id,
                              !.nuts3 = df_cell[1].nuts3,
                              !.nuts1 = Nuts1Of(df_cell[1].nuts3)]]
             /\ cell_draws' = [cell_draws EXCEPT ![g] = r.draws]
             /\ rng' = r.rng
             /\ clean' = (clean /\ r.rng = rng)
    /\ cells_todo' = Tail(cells_todo)
    /\ UNCHANGED <<dist_households, households_typ, demand_regio, zensus_cells,
                   regions_todo, adjusted, table, table_before, pc, err, runs,
                   seed>>
    /\ UNCHANGED otherVars

\* one turn of the loop in which random.sample raises ValueError
SampleCellError ==
    /\ pc = "sample"
    /\ cells_todo # <<>>
    /\ \E nancast \in NanCasts :
         LET g       == Head(cells_todo)
             df_cell == DfCell(zensus_cells, g)
             r       == GetCellDemandProfileIds(df_cell, rng, nancast)
         IN  /\ ~r.ok
             /\ rng' = r.rng
             /\ clean' = (clean /\ r.rng = rng)
    /\ pc' = "failed"
    /\ err' = "ValueError"
    /\ UNCHANGED <<dist_households, households_typ, demand_regio, zensus_cells,
                   metadata, cell_draws, cells_todo, regions_todo, adjusted,
                   table, table_before, runs, seed>>
    /\ UNCHANGED otherVars

\* line 655, and the groupby of line 689
SampleReturn ==
    /\ pc = "sample"
    /\ cells_todo = <<>>
    /\ regions_todo' = NutsGroups(metadata)
    /\ adjusted' = <<>>
    /\ pc' = "adjust"
    /\ UNCHANGED <<dist_households, households_typ, demand_regio, rng,
                   zensus_cells, metadata, cell_draws, cells_todo, table,
                   table_before, err, runs, seed, clean>>
    /\ UNCHANGED otherVars

\* one turn of the loop of lines 689-712
AdjustRegionOk ==
    /\ pc = "adjust"
    /\ regions_todo # <<>>
    /\ LET nuts3_id == Head(regions_todo)
           ids      == Nuts3ProfileIds(metadata, nuts3_id)
           d2035    == DemandLookup(demand_regio, 2035, nuts3_id)
           d2050    == DemandLookup(demand_regio, 2050, nuts3_id)
       IN  /\ Resolves(ids) /\ d2035.ok /\ d2050.ok
           /\ metadata' =
                SetFactor(
                    SetFactor(metadata, nuts3_id, 2035,
                              ScalingFactor(d2035.demand_mwha,
                                            ProfilesSumAnnual(ids))),
                    nuts3_id, 2050,
                    ScalingFactor(d2050.demand_mwha, ProfilesSumAnnual(ids)))
           /\ adjusted' = Append(adjusted, nuts3_id)
    /\ regions_todo' = Tail(regions_todo)
    /\ UNCHANGED <<dist_households, households_typ, demand_regio, rng,
                   zensus_cells, cell_draws, cells_todo, table, table_before,
                   pc, err, runs, seed, clean>>
    /\ UNCHANGED otherVars

\* one turn of the loop in which a .loc lookup raises KeyError; the factor of
\* 2035 is assigned before the lookup for 2050
AdjustRegionKeyError ==
    /\ pc = "adjust"
    /\ regions_todo # <<>>
    /\ LET nuts3_id == Head(regions_todo)
           ids      == Nuts3ProfileIds(metadata, nuts3_id)
           d2035    == DemandLookup(demand_regio, 2035, nuts3_id)
           d2050    == DemandLookup(demand_regio, 2050, nuts3_id)
       IN  /\ ~(Resolves(ids) /\ d2035.ok /\ d2050.ok)
           /\ metadata' =
                IF Resolves(ids) /\ d2035.ok
                THEN SetFactor(metadata, nuts3_id, 2035,
                               ScalingFactor(d2035.demand_mwha,
                                             ProfilesSumAnnual(ids)))
                ELSE metadata
    /\ pc' = "failed"
    /\ err' = "KeyError"
    /\ UNCHANGED <<dist_households, households_typ, demand_regio, rng,
                   zensus_cells, cell_draws, cells_todo, regions_todo, adjusted,
                   table, table_before, runs, seed, clean>>
    /\ UNCHANGED otherVars

\* line 714 and line 915
AdjustReturnBeforeLoopEnd ==
    /\ pc = "adjust"
    /\ pc' = "drop"
    /\ UNCHANGED <<dist_households, households_typ, demand_regio, rng,
                   zensus_cells, metadata, cell_draws, cells_todo, regions_todo,
                   adjusted, table, table_before, err, runs, seed, clean>>
    /\ UNCHANGED otherVars

AdjustReturn ==
    /\ pc = "adjust"
    /\ regions_todo = <<>>
    /\ pc' = "drop"
    /\ UNCHANGED <<dist_households, households_typ, demand_regio, rng,
                   zensus_cells, metadata, cell_draws, cells_todo, regions_todo,
                   adjusted, table, table_before, err, runs, seed, clean>>
    /\ UNCHANGED otherVars

\* lines 919-921: __table__.drop(checkfirst=True)
DropTable ==
    /\ pc = "drop"
    /\ table' = NoTable
    /\ pc' = "create"
    /\ UNCHANGED <<dist_households, households_typ, demand_regio, rng,
                   zensus_cells, metadata, cell_draws, cells_todo, regions_todo,
                   adjusted, table_before, err, runs, seed, clean>>
    /\ UNCHANGED otherVars

\* lines 922-924: __table__.create(checkfirst=True)
CreateTable ==
    /\ pc = "create"
    /\ table' = IF table.exists THEN table ELSE [exists |-> TRUE, rows |-> {}]
    /\ pc' = "insert"
    /\ UNCHANGED <<dist_households, households_typ, demand_regio, rng,
                   zensus_cells, metadata, cell_draws, cells_todo, regions_todo,
                   adjusted, table_before, err, runs, seed, clean>>
    /\ UNCHANGED otherVars

\* lines 925-932: bulk_insert_mappings in one session
InsertRows ==
    /\ pc = "insert"
    /\ table' = [table EXCEPT !.rows = table.rows \cup TableRows(metadata)]
    /\ pc' = "done"
    /\ UNCHANGED <<dist_households, households_typ, demand_regio, rng,
                   zensus_cells, metadata, cell_draws, cells_todo, regions_todo,
                   adjusted, table_before, err, runs, seed, clean>>
    /\ UNCHANGED otherVars

Init ==
    /\ dist_households \in [HHTypes -> 0..MaxDist]
    /\ households_typ \in HouseholdTables
    /\ demand_regio \in DemandTables
    /\ rng \in RngStates
    /\ table = EarlierTable
    /\ table_before = table
    /\ zensus_cells = <<>>
    /\ metadata = <<>>
    /\ cell_draws = <<>>
    /\ cells_todo = <<>>
    /\ regions_todo = <<>>
    /\ adjusted = <<>>
    /\ pc = "cells"
    /\ err = ""
    /\ runs = <<>>
    /\ seed = -1
    /\ clean = FALSE
    /\ profile_columns = ProfileColumns
    /\ subst_map = <<>>
    /\ etrago = NoEtrago
    /\ agg = AggIdle
    /\ shares = <<>>
    /\ groups_todo = <<>>
    /\ MapperIdle

Next ==
    \/ BuildZensusCells
    \/ BuildZensusCellsEmpty
    \/ NewMetadataFrame
    \/ SampleCellOk
    \/ SampleCellError
    \/ SampleReturn
    \/ AdjustRegionOk
    \/ AdjustRegionKeyError
    \/ AdjustReturn
    \/ DropTable
    \/ CreateTable
    \/ InsertRows

Spec == Init /\ [][Next]_vars

---------------------------------------------------------------------------
\* get_cell_demand_metadata on a df_cell of its own

SamplerInit ==
    /\ dist_households = [t \in HHTypes |-> 1]
    /\ households_typ = <<>>
    /\ demand_regio = <<>>
    /\ rng \in RngStates
    /\ table = NoTable
    /\ table_before = table
    /\ zensus_cells \in CellTables
    /\ metadata = <<>>
    /\ cell_draws = <<>>
    /\ cells_todo = <<>>
    /\ regions_todo = <<>>
    /\ adjusted = <<>>
    /\ pc = "frame"
    /\ err = ""
    /\ runs = <<>>
    /\ seed = -1
    /\ clean = FALSE
    /\ profile_columns = ProfileColumns
    /\ subst_map = <<>>
    /\ etrago = NoEtrago
    /\ agg = AggIdle
    /\ shares = <<>>
    /\ groups_todo = <<>>
    /\ MapperIdle

SamplerNext ==
    \/ NewMetadataFrame
    \/ SampleCellOk
    \/ SampleCellError
    \/ SampleReturn

SpecSampler == SamplerInit /\ [][SamplerNext]_vars

---------------------------------------------------------------------------
\* Two runs of get_cell_demand_metadata in one process. The sampler takes no
\* seed: it draws from the generator of module random, which the caller can
\* set with random.seed and which any other code of the process advances.

\* random.seed(s) by the caller
SeedRandom ==
    /\ pc = "idle"
    /\ \E s \in RngStates :
         /\ rng' = s
         /\ seed' = s
    /\ clean' = TRUE
    /\ UNCHANGED <<dist_households, households_typ, demand_regio, zensus_cells,
                   metadata, cell_draws, cells_todo, regions_todo, adjusted,
                   table, table_before, pc, err, runs>>
    /\ UNCHANGED otherVars

\* a draw from the generator by other code of the process
OtherRandomUse ==
    /\ pc = "idle"
    /\ rng' = RngNext(rng)
    /\ clean' = FALSE
    /\ UNCHANGED <<dist_households, households_typ, demand_regio, zensus_cells,
                   metadata, cell_draws, cells_todo, regions_todo, adjusted,
                   table, table_before, pc, err, runs, seed>>
    /\ UNCHANGED otherVars

\* a call of get_cell_demand_metadata(df_zensus_cells, df_profiles)
StartRun ==
    /\ pc = "idle"
    /\ Len(runs) < 2
    /\ runs' = Append(runs, [seed |-> seed, clean |-> clean, ended |-> FALSE,
                             ok |-> FALSE, rows |-> <<>>])
    /\ pc' = "frame"
    /\ UNCHANGED <<dist_households, households_typ, demand_regio, rng,
                   zensus_cells, metadata, cell_draws, cells_todo, regions_todo,
                   adjusted, table, table_before, err, seed, clean>>
    /\ UNCHANGED otherVars

\* the call has returned its frame or raised
FinishRun ==
    /\ pc \in {"adjust", "failed"}
    /\ runs' = [runs EXCEPT ![Len(runs)] =
                   [@ EXCEPT !.ended = TRUE,
                             !.ok = (pc = "adjust"),
                             !.rows = IF pc = "adjust" THEN metadata ELSE <<>>]]
    /\ metadata' = <<>>
    /\ cell_draws' = <<>>
    /\ cells_todo' = <<>>
    /\ regions_todo' = <<>>
    /\ pc' = "idle"
    /\ err' = ""
    /\ UNCHANGED <<dist_households, households_typ, demand_regio, rng,
                   zensus_cells, adjusted, table, table_before, seed, clean>>
    /\ UNCHANGED otherVars

SeedInit ==
    /\ dist_households = [t \in HHTypes |-> 1]
    /\ households_typ = <<>>
    /\ demand_regio = <<>>
    /\ rng \in RngStates
    /\ table = NoTable
    /\ table_before = table
    /\ zensus_cells \in CellTables
    /\ metadata = <<>>
    /\ cell_draws = <<>>
    /\ cells_todo = <<>>
    /\ regions_todo = <<>>
    /\ adjusted = <<>>
    /\ pc = "idle"
    /\ err = ""
    /\ runs = <<>>
    /\ seed = -1
    /\ clean = FALSE
    /\ profile_columns = ProfileColumns
    /\ subst_map = <<>>
    /\ etrago = NoEtrago
    /\ agg = AggIdle
    /\ shares = <<>>
    /\ groups_todo = <<>>
    /\ MapperIdle

SeedNext ==
    \/ SeedRandom
    \/ OtherRandomUse
    \/ StartRun
    \/ NewMetadataFrame
    \/ SampleCellOk
    \/ SampleCellError
    \/ SampleReturn
    \/ FinishRun

SpecSeed == SeedInit /\ [][SeedNext]_vars

---------------------------------------------------------------------------
\* get_cell_demand_metadata over two grid cells, called right after the
\* caller's random.seed(seed): the loop of lines 634-653 visits the cells
\* in the order of grid_id and every cell draws from the one generator

\* df_zensus_cells with one row for each of two grid cells
TwoCellTables ==
    {<<r, [t EXCEPT !.grid_id = 2, !.cell_id = 102]>> :
        r \in CellRows, t \in CellRows}

OrderInit ==
    /\ zensus_cells \in TwoCellTables
    /\ seed \in RngStates
    /\ rng = seed
    /\ clean = TRUE
    /\ pc = "frame"
    /\ dist_households = [t \in HHTypes |-> 1]
    /\ households_typ = <<>>
    /\ demand_regio = <<>>
    /\ table = NoTable
    /\ table_before = table
    /\ metadata = <<>>
    /\ cell_draws = <<>>
    /\ cells_todo = <<>>
    /\ regions_todo = <<>>
    /\ adjusted = <<>>
    /\ err = ""
    /\ runs = <<>>
    /\ profile_columns = ProfileColumns
    /\ subst_map = <<>>
    /\ etrago = NoEtrago
    /\ agg = AggIdle
    /\ shares = <<>>
    /\ groups_todo = <<>>
    /\ MapperIdle

OrderNext ==
    \/ NewMetadataFrame
    \/ SampleCellOk
    \/ SampleCellError
    \/ SampleReturn

SpecOrder == OrderInit /\ [][OrderNext]_vars

---------------------------------------------------------------------------
\* The stage from get_cell_demand_metadata on, over profile files whose ids
\* per type are distinct integers: get_household_demand_profiles_raw takes
\* the ids from the column names, whatever they are

\* the ids 0 .. n-1, ids with a gap, ids that start at 1
Pools ==
    {ProfileColumns,
     {<<"SR", 0>>, <<"SR", 2>>, <<"SO", 0>>},
     {<<"SR", 1>>, <<"SR", 2>>, <<"SO", 1>>}}

PoolInit ==
    /\ profile_columns \in Pools
    /\ zensus_cells \in CellTables
    /\ rng \in RngStates
    /\ demand_regio = [key \in ScenarioYears \X Nuts3Set |-> MaxDemand]
    /\ dist_households = [t \in HHTypes |-> 1]
    /\ households_typ = <<>>
    /\ table = EarlierTable
    /\ table_before = table
    /\ metadata = <<>>
    /\ cell_draws = <<>>
    /\ cells_todo = <<>>
    /\ regions_todo = <<>>
    /\ adjusted = <<>>
    /\ pc = "frame"
    /\ err = ""
    /\ runs = <<>>
    /\ seed = -1
    /\ clean = FALSE
    /\ subst_map = <<>>
    /\ etrago = NoEtrago
    /\ agg = AggIdle
    /\ shares = <<>>
    /\ groups_todo = <<>>
    /\ MapperIdle

PoolNext ==
    \/ NewMetadataFrame
    \/ SampleCellOk
    \/ SampleCellError
    \/ SampleReturn
    \/ AdjustRegionOk
    \/ AdjustRegionKeyError
    \/ AdjustReturn
    \/ DropTable
    \/ CreateTable
    \/ InsertRows

SpecPool == PoolInit /\ [][PoolNext]_vars

---------------------------------------------------------------------------
\* The normalisation loop of houseprofiles_in_census_cells on a table of all
\* ten household types of one federal state (div works column by column)

AllHHTypes == UNION {SeqToSet(MAPPING_ZENSUS_HH_SUBGROUPS[c]) : c \in 1..5}

\* one turn of the loop of lines 831-835: the rows of one subgroup are
\* replaced by their quotient with the subgroup's sum
NormaliseGroup ==
    /\ pc = "normalise"
    /\ groups_todo # <<>>
    /\ shares' = [t \in DOMAIN shares |->
                     IF t \in SeqToSet(MAPPING_ZENSUS_HH_SUBGROUPS[Head(groups_todo)])
                     THEN TypeShare(dist_households, t)
                     ELSE shares[t]]
    /\ groups_todo' = Tail(groups_todo)
    /\ UNCHANGED stageVars
    /\ UNCHANGED <<profile_columns, subst_map, etrago, agg, mapperVars>>

\* the loop has gone through MAPPING_ZENSUS_HH_SUBGROUPS.values()
NormaliseDone ==
    /\ pc = "normalise"
    /\ groups_todo = <<>>
    /\ pc' = "normalised"
    /\ UNCHANGED <<dist_households, households_typ, demand_regio, rng,
                   zensus_cells, metadata, cell_draws, cells_todo, regions_todo,
                   adjusted, table, table_before, err, runs, seed, clean>>
    /\ UNCHANGED otherVars

SharesInit ==
    /\ dist_households \in [AllHHTypes -> 0..MaxDist]
    /\ shares = [t \in AllHHTypes |-> Rat(dist_households[t], 1)]
    /\ groups_todo = <<1, 2, 3, 4, 5>>
    /\ pc = "normalise"
    /\ households_typ = <<>>
    /\ demand_regio = <<>>
    /\ rng = 0
    /\ table = NoTable
    /\ table_before = table
    /\ zensus_cells = <<>>
    /\ metadata = <<>>
    /\ cell_draws = <<>>
    /\ cells_todo = <<>>
    /\ regions_todo = <<>>
    /\ adjusted = <<>>
    /\ err = ""
    /\ runs = <<>>
    /\ seed = -1
    /\ clean = FALSE
    /\ profile_columns = ProfileColumns
    /\ subst_map = <<>>
    /\ etrago = NoEtrago
    /\ agg = AggIdle
    /\ MapperIdle

SharesNext ==
    \/ NormaliseGroup
    \/ NormaliseDone

SpecShares == SharesInit /\ [][SharesNext]_vars

---------------------------------------------------------------------------
\* Lines 788-829 of houseprofiles_in_census_cells: from the census table of
\* persons by household type, household size and age class of one federal
\* state to the number of households per household type

\* the 11 age classes of the census table
AgeClasses ==
    {"Unter 3", "3 - 5", "6 - 14", "15 - 17", "18 - 24", "25 - 29", "30 - 39",
     "40 - 49", "50 - 64", "65 - 74", "75 und aelter"}

kids == <<"Unter 3", "3 - 5", "6 - 14">>

adultsWithSchoolKids ==
    <<"6 - 14", "15 - 17", "18 - 24", "25 - 29", "30 - 39", "40 - 49", "50 - 64">>

adults == <<"15 - 17", "18 - 24", "25 - 29", "30 - 39", "40 - 49", "50 - 64">>

seniors == <<"65 - 74", "75 und aelter">>

\* (type, persons) columns of the census table: those HH_TYPES names and one
\* it does not name
ZensusTypes ==
    {<<"Einpersonenhaushalte (Singlehaushalte)", "Insgesamt">>,
     <<"Alleinerziehende Elternteile", "Insgesamt">>,
     <<"Paare ohne Kind(er)", "Insgesamt">>,
     <<"Paare ohne Kind(er)", "2 Personen">>,
     <<"Paare ohne Kind(er)", "3 Personen">>,
     <<"Paare ohne Kind(er)", "4 Personen">>,
     <<"Paare ohne Kind(er)", "5 Personen">>,
     <<"Paare ohne Kind(er)", "6 und mehr Personen">>,
     <<"Paare mit Kind(ern)", "3 Personen">>,
     <<"Paare mit Kind(ern)", "4 Personen">>,
     <<"Paare mit Kind(ern)", "5 Personen">>,
     <<"Paare mit Kind(ern)", "6 und mehr Personen">>,
     <<"Mehrpersonenhaushalte ohne Kernfamilie", "2 Personen">>,
     <<"Mehrpersonenhaushalte ohne Kernfamilie", "3 Personen">>,
     <<"Mehrpersonenhaushalte ohne Kernfamilie", "4 Personen">>,
     <<"Mehrpersonenhaushalte ohne Kernfamilie", "5 Personen">>,
     <<"Mehrpersonenhaushalte ohne Kernfamilie", "6 und mehr Personen">>}

ZensusKeys == {<<tp[1], tp[2], a>> : tp \in ZensusTypes, a \in AgeClasses}

\* the household sizes of one type in HH_TYPES, for one age group
WithSizes(type, sizes, age) == {<<type, sz, age>> : sz \in sizes}

FromThree == {"3 Personen", "4 Personen", "5 Personen", "6 und mehr Personen"}

HH_TYPES ==
    [t \in AllHHTypes |->
        CASE t = "SR" ->
                 {<<"Einpersonenhaushalte (Singlehaushalte)", "Insgesamt", "Seniors">>,
                  <<"Alleinerziehende Elternteile", "Insgesamt", "Seniors">>}
          [] t = "SO" ->
                 {<<"Einpersonenhaushalte (Singlehaushalte)", "Insgesamt", "Adults">>}
          [] t = "SK" ->
                 {<<"Alleinerziehende Elternteile", "Insgesamt", "Adults">>}
          [] t = "PR" ->
                 {<<"Paare ohne Kind(er)", "2 Personen", "Seniors">>,
                  <<"Mehrpersonenhaushalte ohne Kernfamilie", "2 Personen", "Seniors">>}
          [] t = "PO" ->
                 {<<"Paare ohne Kind(er)", "2 Personen", "Adults">>,
                  <<"Mehrpersonenhaushalte ohne Kernfamilie", "2 Personen", "Adults">>}
          [] t = "P1" -> {<<"Paare mit Kind(ern)", "3 Personen", "Adults">>}
          [] t = "P2" -> {<<"Paare mit Kind(ern)", "4 Personen", "Adults">>}
          [] t = "P3" ->
                 {<<"Paare mit Kind(ern)", "5 Personen", "Adults">>,
                  <<"Paare mit Kind(ern)", "6 und mehr Personen", "Adults">>}
          [] t = "OR" ->
                 WithSizes("Mehrpersonenhaushalte ohne Kernfamilie", FromThree, "Seniors")
                 \cup WithSizes("Paare mit Kind(ern)", FromThree, "Seniors")
                 \cup WithSizes("Paare ohne Kind(er)", FromThree, "Seniors")
          [] t = "OO" ->
                 WithSizes("Mehrpersonenhaushalte ohne Kernfamilie", FromThree, "Adults")
                 \cup WithSizes("Paare ohne Kind(er)", FromThree, "Adults")]

\* the count of an entry; an entry the table does not list is 0
Count(tbl, key) == IF key \in DOMAIN tbl THEN tbl[key] ELSE 0

\* .loc[:, (slice(None), ages)].groupby(level=0, axis=1).sum() for one column
AgeGroupSum(tbl, tp, ages) ==
    SumOver([k \in ZensusKeys |-> Count(tbl, k)],
            {<<tp[1], tp[2], a>> : a \in SeqToSet(ages)})

\* process_nuts1_zensus_data: columns (type, persons, age) with age one of
\* Kids, Adults, Seniors
ProcessNuts1ZensusData(tbl) ==
    [key \in {<<tp[1], tp[2], age>> : tp \in ZensusTypes,
                                       age \in {"Kids", "Adults", "Seniors"}} |->
        AgeGroupSum(tbl, <<key[1], key[2]>>,
                    CASE key[3] = "Kids" -> kids
                      [] key[3] = "Adults" -> adults
                      [] key[3] = "Seniors" -> seniors)]

\* the dict adjust of get_hh_dist, in thousandths
Adjust(multi_adjust) ==
    [t \in AllHHTypes \cup {"O1", "O2"} |->
        IF multi_adjust
        THEN CASE t = "OO" -> 703 [] t = "O1" -> 216 [] t = "O2" -> 81
               [] OTHER -> 1000
        ELSE CASE t = "OO" -> 1000 [] t = "O1" -> 0 [] t = "O2" -> 0
               [] OTHER -> 1000]

\* get_hh_dist for the row of one federal state, before the transposition:
\* hh_type -> persons; columns that are zero are dropped
GetHhDist(zensus, hh_types, multi_adjust, relative) ==
    LET scaled == [t \in DOMAIN hh_types |->
                      Adjust(multi_adjust)[t] * SumOver(zensus, hh_types[t])]
        kept   == {t \in DOMAIN hh_types : scaled[t] # 0}
        total  == SumOver(scaled, kept)
    IN  [t \in kept |->
            IF relative THEN Rat(scaled[t], total) ELSE Rat(scaled[t], 1000)]

\* characteristics_text of the rows of the HHGROESS_KLASS query
HhSizeClasses ==
    <<"1 Person", "2 Personen", "3 Personen", "4 Personen", "5 Personen",
      "6 und mehr Personen">>

\* GROUP BY without ORDER BY: the rows come in an order of the database's
\* choosing
HhSizeOrders ==
    {HhSizeClasses,
     <<"4 Personen", "1 Person", "6 und mehr Personen", "3 Personen",
       "2 Personen", "5 Personen">>}

HhSizeSums ==
    {[c \in SeqToSet(HhSizeClasses) |->
         CASE c = "3 Personen" -> 2 [] c = "4 Personen" -> 1
           [] c = "5 Personen" -> 0 [] c = "6 und mehr Personen" -> 0
           [] OTHER -> 1],
     [c \in SeqToSet(HhSizeClasses) |->
         IF c \in {"1 Person", "2 Personen"} THEN 1 ELSE 0]}

HhSizeResults ==
    {[i \in 1..Len(order) |->
         [characteristics_text |-> order[i], summe |-> sums[order[i]]]] :
     order \in HhSizeOrders, sums \in HhSizeSums}

\* sum(df_hh_size["summe"] * [3, 4, 5, 6]) / df_hh_size["summe"].sum() after
\* the rows of 1 and 2 persons are dropped: the product goes by position
OOFactor(rows) ==
    LET Kept(r) == r.characteristics_text \notin {"1 Person", "2 Personen"}
        kept    == SelectSeq(rows, Kept)
        weight  == <<3, 4, 5, 6>>
        total   == SeqSum([i \in 1..Len(kept) |-> kept[i].summe])
    IN  IF total = 0 THEN NaN
        ELSE Rat(SeqSum([i \in 1..Len(kept) |-> kept[i].summe * weight[i]]),
                 total)

MappingPeopleInHouseholds(OO_factor) ==
    [t \in AllHHTypes |->
        CASE t \in {"SR", "SO", "SK"} -> Rat(1, 1)
          [] t \in {"PR", "PO", "P1", "P2", "P3"} -> Rat(2, 1)
          [] OTHER -> OO_factor]

\* np.ceil of the quotient n / d of two integers, n >= 0 and d > 0
CeilAsRint(n, d) == Rint(n, d)

Ceil(n, d) == (n + d - 1) \div d

\* inhabitants_to_households: the keys of the mapping the table does not
\* have are removed, the rows are divided by the mapping and ceiled
InhabitantsToHouseholds(people, mapping) ==
    [t \in DOMAIN people \cap DOMAIN mapping |->
        IF mapping[t].nan THEN NaN
        ELSE Rat(Ceil(people[t].n * mapping[t].d, people[t].d * mapping[t].n), 1)]

\* the sets of at most n entries of the census table
RECURSIVE KeySetsUpTo(_)
KeySetsUpTo(n) ==
    IF n = 0 THEN {{}}
    ELSE KeySetsUpTo(n - 1)
         \cup {ks \cup {k} : ks \in KeySetsUpTo(n - 1), k \in ZensusKeys}

\* census tables of persons with at most MaxEntries nonzero entries
HouseholdsTables ==
    UNION {[ks -> 1..MaxPeople] : ks \in KeySetsUpTo(MaxEntries)}

\* line 789: download_process_zensus_households ends with
\* process_nuts1_zensus_data
ProcessZensus ==
    /\ pc = "zensus"
    /\ df_zensus' = ProcessNuts1ZensusData(households)
    /\ pc' = "hh_dist"
    /\ UNCHANGED <<dist_households, households_typ, demand_regio, rng,
                   zensus_cells, metadata, cell_draws, cells_todo, regions_todo,
                   adjusted, table, table_before, err, runs, seed, clean>>
    /\ UNCHANGED <<profile_columns, subst_map, etrago, agg, shares, groups_todo>>
    /\ UNCHANGED <<households, df_hh_types_nad_abs, df_hh_size,
                   mapping_people_in_households, df_households_by_type>>

\* lines 792-794: get_hh_dist(df_zensus, HH_TYPES, multi_adjust=False,
\* relative=False)
GetHhDistAbs ==
    /\ pc = "hh_dist"
    /\ df_hh_types_nad_abs' = GetHhDist(df_zensus, HH_TYPES, FALSE, FALSE)
    /\ pc' = "hh_size"
    /\ UNCHANGED <<dist_households, households_typ, demand_regio, rng,
                   zensus_cells, metadata, cell_draws, cells_todo, regions_todo,
                   adjusted, table, table_before, err, runs, seed, clean>>
    /\ UNCHANGED <<profile_columns, subst_map, etrago, agg, shares, groups_todo>>
    /\ UNCHANGED <<households, df_zensus, df_hh_size,
                   mapping_people_in_households, df_households_by_type>>

\* lines 798-825: the query of the household sizes and the mapping
HhSizeQuery ==
    /\ pc = "hh_size"
    /\ \E rows \in HhSizeResults :
           /\ df_hh_size' = rows
           /\ mapping_people_in_households' =
                  MappingPeopleInHouseholds(OOFactor(rows))
    /\ pc' = "households"
    /\ UNCHANGED <<dist_households, households_typ, demand_regio, rng,
                   zensus_cells, metadata, cell_draws, cells_todo, regions_todo,
                   adjusted, table, table_before, err, runs, seed, clean>>
    /\ UNCHANGED <<profile_columns, subst_map, etrago, agg, shares, groups_todo>>
    /\ UNCHANGED <<households, df_zensus, df_hh_types_nad_abs,
                   df_households_by_type>>

\* lines 827-829: inhabitants_to_households
ToHouseholds ==
    /\ pc = "households"
    /\ df_households_by_type' =
           InhabitantsToHouseholds(df_hh_types_nad_abs,
                                   mapping_people_in_households)
    /\ pc' = "mapped"
    /\ UNCHANGED <<dist_households, households_typ, demand_regio, rng,
                   zensus_cells, metadata, cell_draws, cells_todo, regions_todo,
                   adjusted, table, table_before, err, runs, seed, clean>>
    /\ UNCHANGED <<profile_columns, subst_map, etrago, agg, shares, groups_todo>>
    /\ UNCHANGED <<households, df_zensus, df_hh_types_nad_abs, df_hh_size,
                   mapping_people_in_households>>

MapperInit ==
    /\ households \in HouseholdsTables
    /\ df_zensus = <<>>
    /\ df_hh_types_nad_abs = <<>>
    /\ df_hh_size = <<>>
    /\ mapping_people_in_households = <<>>
    /\ df_households_by_type = <<>>
    /\ pc = "zensus"
    /\ dist_households = <<>>
    /\ households_typ = <<>>
    /\ demand_regio = <<>>
    /\ rng = 0
    /\ table = NoTable
    /\ table_before = table
    /\ zensus_cells = <<>>
    /\ metadata = <<>>
    /\ cell_draws = <<>>
    /\ cells_todo = <<>>
    /\ regions_todo = <<>>
    /\ adjusted = <<>>
    /\ err = ""
    /\ runs = <<>>
    /\ seed = -1
    /\ clean = FALSE
    /\ profile_columns = ProfileColumns
    /\ subst_map = <<>>
    /\ etrago = NoEtrago
    /\ agg = AggIdle
    /\ shares = <<>>
    /\ groups_todo = <<>>

MapperNext ==
    \/ ProcessZensus
    \/ GetHhDistAbs
    \/ HhSizeQuery
    \/ ToHouseholds

SpecMapper == MapperInit /\ [][MapperNext]_vars

---------------------------------------------------------------------------
\* mv_grid_district_HH_electricity_load, called after the stage has ended

\* the call with its arguments
AggCall ==
    /\ pc \in {"done", "failed"}
    /\ agg.pc = "idle"
    /\ agg.calls < MaxCalls
    /\ \E scn \in Scenarios, v \in Versions, d \in BOOLEAN :
         agg' = [pc            |-> "drop",
                 scenario_name |-> scn.name,
                 scenario_year |-> scn.year,
                 version       |-> v,
                 drop_table    |-> d,
                 rerun         |-> \E row \in etrago.rows :
                                      row.version = v /\ row.scn_name = scn.name,
                 mvgd_profiles |-> <<>>,
                 err           |-> "",
                 calls         |-> agg.calls]
    /\ UNCHANGED <<stageVars, mapperVars, profile_columns, subst_map, etrago, shares,
                   groups_todo>>

\* lines 989-993: if drop_table, __table__.drop(checkfirst=True)
AggDropTableOfCells ==
    /\ agg.pc = "drop"
    /\ table' = IF agg.drop_table THEN NoTable ELSE table
    /\ agg' = [agg EXCEPT !.pc = "create"]
    /\ UNCHANGED <<dist_households, households_typ, demand_regio, rng,
                   zensus_cells, metadata, cell_draws, cells_todo, regions_todo,
                   adjusted, table_before, pc, err, runs, seed, clean,
                   profile_columns, subst_map, etrago, shares, groups_todo,
                   mapperVars>>

AggDropTable ==
    /\ agg.pc = "drop"
    /\ etrago' = IF agg.drop_table THEN NoEtrago ELSE etrago
    /\ agg' = [agg EXCEPT !.pc = "create"]
    /\ UNCHANGED <<stageVars, mapperVars, profile_columns, subst_map, shares, groups_todo>>

\* lines 994-996: __table__.create(checkfirst=True)
AggCreateTable ==
    /\ agg.pc = "create"
    /\ etrago' = IF etrago.exists THEN etrago ELSE [exists |-> TRUE, rows |-> {}]
    /\ agg' = [agg EXCEPT !.pc = "compute"]
    /\ UNCHANGED <<stageVars, mapperVars, profile_columns, subst_map, shares, groups_todo>>

\* lines 998-1036: the query, the loop over the substations and the reshaping
AggComputeOk ==
    /\ agg.pc = "compute"
    /\ LET cells == CellsQuery(table, subst_map)
       IN  /\ cells # {}
           /\ DataResolves(cells, agg.scenario_year)
           /\ agg' = [agg EXCEPT !.pc = "insert",
                                 !.mvgd_profiles =
                                     MvgdProfiles(cells, agg.scenario_year)]
    /\ UNCHANGED <<stageVars, mapperVars, profile_columns, subst_map, etrago, shares,
                   groups_todo>>

\* the same lines when a profile is no column of df_profiles (KeyError,
\* line 765) or no cell has a substation: the empty dict gives a frame of
\* one column and line 1032 raises ValueError
AggComputeError ==
    /\ agg.pc = "compute"
    /\ LET cells == CellsQuery(table, subst_map)
       IN  /\ ~(cells # {} /\ DataResolves(cells, agg.scenario_year))
           /\ agg' = [agg EXCEPT !.pc = "idle",
                                 !.err = IF DataResolves(cells, agg.scenario_year)
                                         THEN "ValueError" ELSE "KeyError",
                                 !.calls = @ + 1]
    /\ UNCHANGED <<stageVars, mapperVars, profile_columns, subst_map, etrago, shares,
                   groups_todo>>

\* some row to insert has the primary key of a row of the table
KeyConflict(rows, tbl) ==
    \E r \in rows : \E e \in tbl.rows : KeyOf(e) = KeyOf(r)

\* lines 1039-1043: bulk_insert_mappings in one session, committed
AggInsertOk ==
    /\ agg.pc = "insert"
    /\ LET rows == EtragoRows(agg.mvgd_profiles, agg.version, agg.scenario_name)
       IN  /\ ~KeyConflict(rows, etrago)
           /\ etrago' = [etrago EXCEPT !.rows = @ \cup rows]
    /\ agg' = [agg EXCEPT !.pc = "idle", !.calls = @ + 1]
    /\ UNCHANGED <<stageVars, mapperVars, profile_columns, subst_map, shares, groups_todo>>

\* the same lines when the primary key rejects a row: IntegrityError, the
\* session rolls back
AggInsertIntegrityError ==
    /\ agg.pc = "insert"
    /\ KeyConflict(EtragoRows(agg.mvgd_profiles, agg.version, agg.scenario_name),
                   etrago)
    /\ agg' = [agg EXCEPT !.pc = "idle", !.err = "IntegrityError",
                          !.calls = @ + 1]
    /\ UNCHANGED <<stageVars, mapperVars, profile_columns, subst_map, etrago, shares,
                   groups_todo>>

\* cell ids of the grid cells
CellIds == {100 + g : g \in GridIds}

\* demand tables of the runs that are followed by the aggregation
AggDemandTables ==
    {[key \in ScenarioYears \X Nuts3Set |-> MaxDemand],
     [key \in ScenarioYears \X Nuts3Set |-> 0],
     [key \in (ScenarioYears \X Nuts3Set) \ {<<2035, "DE111">>} |-> MaxDemand]}

AggInit ==
    /\ dist_households \in [HHTypes -> 0..MaxDist]
    /\ households_typ \in HouseholdTables
    /\ demand_regio \in AggDemandTables
    /\ rng = 0
    /\ table = EarlierTable
    /\ table_before = table
    /\ zensus_cells = <<>>
    /\ metadata = <<>>
    /\ cell_draws = <<>>
    /\ cells_todo = <<>>
    /\ regions_todo = <<>>
    /\ adjusted = <<>>
    /\ pc = "cells"
    /\ err = ""
    /\ runs = <<>>
    /\ seed = -1
    /\ clean = FALSE
    /\ profile_columns = ProfileColumns
    /\ subst_map \in [CellIds -> 0..NumSubst]
    /\ etrago = NoEtrago
    /\ agg = AggIdle
    /\ shares = <<>>
    /\ groups_todo = <<>>
    /\ MapperIdle

AggNext ==
    \/ BuildZensusCells
    \/ BuildZensusCellsEmpty
    \/ NewMetadataFrame
    \/ SampleCellOk
    \/ SampleCellError
    \/ SampleReturn
    \/ AdjustRegionOk
    \/ AdjustRegionKeyError
    \/ AdjustReturn
    \/ DropTable
    \/ CreateTable
    \/ InsertRows
    \/ AggCall
    \/ AggDropTable
    \/ AggCreateTable
    \/ AggComputeOk
    \/ AggComputeError
    \/ AggInsertOk
    \/ AggInsertIntegrityError

SpecAggregator == AggInit /\ [][AggNext]_vars

---------------------------------------------------------------------------
\* The stage and the aggregation over changing profile files: each of
\* houseprofiles_in_census_cells and mv_grid_district_HH_electricity_load
\* reads the file anew with get_household_demand_profiles_raw (lines 799
\* and 1016), so the table can hold pairs of a file that is no longer there

\* the profile file is replaced after the stage has ended
ReplaceProfiles ==
    /\ pc \in {"done", "failed"}
    /\ agg.pc = "idle"
    /\ agg.calls = 0
    /\ profile_columns' \in Pools \ {profile_columns}
    /\ UNCHANGED <<stageVars, mapperVars, subst_map, etrago, agg, shares, groups_todo>>

StaleInit ==
    /\ profile_columns \in Pools
    /\ zensus_cells \in CellTables
    /\ rng \in RngStates
    /\ subst_map \in [CellIds -> 0..NumSubst]
    /\ demand_regio = [key \in ScenarioYears \X Nuts3Set |-> MaxDemand]
    /\ dist_households = [t \in HHTypes |-> 1]
    /\ households_typ = <<>>
    /\ table = EarlierTable
    /\ table_before = table
    /\ metadata = <<>>
    /\ cell_draws = <<>>
    /\ cells_todo = <<>>
    /\ regions_todo = <<>>
    /\ adjusted = <<>>
    /\ pc = "frame"
    /\ err = ""
    /\ runs = <<>>
    /\ seed = -1
    /\ clean = FALSE
    /\ etrago = NoEtrago
    /\ agg = AggIdle
    /\ shares = <<>>
    /\ groups_todo = <<>>
    /\ MapperIdle

StaleNext ==
    \/ NewMetadataFrame
    \/ SampleCellOk
    \/ SampleCellError
    \/ SampleReturn
    \/ AdjustRegionOk
    \/ AdjustRegionKeyError
    \/ AdjustReturn
    \/ DropTable
    \/ CreateTable
    \/ InsertRows
    \/ ReplaceProfiles
    \/ AggCall
    \/ AggDropTable
    \/ AggCreateTable
    \/ AggComputeOk
    \/ AggComputeError
    \/ AggInsertOk
    \/ AggInsertIntegrityError

SpecStale == StaleInit /\ [][StaleNext]_vars

---------------------------------------------------------------------------
\* Properties of the sampler

\* k is an integer nearest to the rational x
IsNearestInteger(k, x) ==
    /\ ~x.nan
    /\ 2 * (k * x.d - x.n) <= x.d
    /\ 2 * (x.n - k * x.d) <= x.d

\* positions of the pairs of hh_type in a flat list of (hh_type, id)
PositionsOfType(ids, hh_type) == {i \in 1..Len(ids) : ids[i][1] = hh_type}

\* rows of df_cell of hh_type
RowsOfType(df_cell, hh_type) ==
    {i \in 1..Len(df_cell) : df_cell[i].hh_type = hh_type}

RECURSIVE DrawnOverRows(_, _)
DrawnOverRows(draws, rowset) ==
    IF rowset = {} THEN 0
    ELSE LET i == CHOOSE j \in rowset : TRUE
         IN  Len(draws[i].ids) + DrawnOverRows(draws, rowset \ {i})

\* C1: for every sampled cell, every row of the cell with a positive expected
\* count contributes a draw whose length is the integer nearest to that count
\* (neither its floor nor its ceiling unless that is the nearest), and the
\* list the sampler returns holds, for each type, exactly the pairs drawn for
\* the rows of that type.
C1_SampleSizeIsNearestInteger ==
    \A g \in DOMAIN metadata :
        metadata[g].sampled =>
            LET df_cell == DfCell(zensus_cells, g)
                draws   == cell_draws[g]
            IN  /\ Len(draws) = Len(df_cell)
                /\ \A i \in 1..Len(df_cell) :
                       (~df_cell[i].hh_10types.nan /\ df_cell[i].hh_10types.n > 0) =>
                           /\ draws[i].hh_type = df_cell[i].hh_type
                           /\ IsNearestInteger(Len(draws[i].ids),
                                               df_cell[i].hh_10types)
                /\ \A t \in HHTypes :
                       Cardinality(PositionsOfType(metadata[g].cell_profile_ids, t))
                           = DrawnOverRows(draws, RowsOfType(df_cell, t))

\* C1 witness: a sampled cell with a row of expected count strictly between
\* 1/2 and 1 that received exactly one profile id.
C1_Witness ==
    \E g \in DOMAIN metadata :
        /\ metadata[g].sampled
        /\ \E i \in 1..Len(DfCell(zensus_cells, g)) :
               LET x == DfCell(zensus_cells, g)[i].hh_10types
               IN  /\ ~x.nan /\ x.n < x.d /\ 2 * x.n > x.d
                   /\ Len(cell_draws[g][i].ids) = 1
                   /\ Cardinality(PositionsOfType(metadata[g].cell_profile_ids,
                          DfCell(zensus_cells, g)[i].hh_type)) = 1

\* C2: in every cell the sampler has filled, the profile ids the cell holds
\* for one household type are pairwise distinct and lie in [0, pool_size[type]),
\* whatever rows the cell has, several rows of one type included.
C2_IdsDistinctPerType ==
    \A g \in DOMAIN metadata :
        metadata[g].sampled =>
            \A t \in HHTypes :
                LET ids == metadata[g].cell_profile_ids
                    pos == PositionsOfType(ids, t)
                IN  /\ \A i \in pos : ids[i][2] >= 0 /\ ids[i][2] < PoolSize(t)
                    /\ \A i, j \in pos : i # j => ids[i][2] # ids[j][2]


\* two finished runs gave the same outcome: the same frame or both an error
SameOutcome(a, b) == a.ok = b.ok /\ a.rows = b.rows

\* C4: the sampler is deterministic in its seed: two finished runs of
\* get_cell_demand_metadata over the same df_zensus_cells and df_profiles that
\* were started with the same seed (random.seed by the caller, the sampler
\* having no seed argument) give identical frames, whatever draws other code
\* of the process made before each run.
C4_SameSeedSameRows ==
    \A i, j \in 1..Len(runs) :
        (/\ runs[i].ended /\ runs[j].ended
         /\ runs[i].seed # -1
         /\ runs[i].seed = runs[j].seed) =>
            SameOutcome(runs[i], runs[j])

\* What the global generator does give: two finished runs over the same
\* df_zensus_cells that each started in the generator state random.seed(s)
\* leaves, with no draw by other code in between, give identical frames.
SameGeneratorStateSameRows ==
    \A i, j \in 1..Len(runs) :
        (/\ runs[i].ended /\ runs[j].ended
         /\ runs[i].seed # -1
         /\ runs[i].seed = runs[j].seed
         /\ runs[i].clean /\ runs[j].clean) =>
            SameOutcome(runs[i], runs[j])

\* a row whose rounded expected count is more than the pool of its type holds
RowExceedsPool(row) ==
    /\ ~row.hh_10types.nan
    /\ Rint(row.hh_10types.n, row.hh_10types.d) > PoolSize(row.hh_type)

SamplerReturned == pc \in {"adjust", "drop", "create", "insert", "done"}

\* C3: when the rounded expected count of a row exceeds the pool of its type,
\* the sampler returns no list for the cell of that row (neither a shorter
\* one nor one with repeats) and never returns for the run; the run ends
\* failed with the error of random.sample, nothing can follow the failure,
\* and the table is as the run found it.
C3_InsufficientPoolIsFatal ==
    /\ \A i \in 1..Len(zensus_cells) :
           RowExceedsPool(zensus_cells[i]) =>
               /\ ~SamplerReturned
               /\ table = table_before
               /\ zensus_cells[i].grid_id \in DOMAIN metadata =>
                      ~metadata[zensus_cells[i].grid_id].sampled
    /\ (pc = "failed" /\ err = "ValueError") =>
           /\ table = table_before
           /\ ~ENABLED Next

\* C3 witness: the run has failed in the sampler at a cell with a row whose
\* rounded count exceeds the pool, and the table is untouched.
C3_Witness ==
    /\ pc = "failed"
    /\ err = "ValueError"
    /\ cells_todo # <<>>
    /\ \E i \in 1..Len(zensus_cells) :
           /\ zensus_cells[i].grid_id = Head(cells_todo)
           /\ RowExceedsPool(zensus_cells[i])
    /\ table = table_before
    /\ table.rows # {}

---------------------------------------------------------------------------
\* Properties of the reconciler

ReconcilerReturned == pc \in {"drop", "create", "insert", "done"}

\* annual energy in Wh of one profile
AnnualEnergy(col) == SeqSum(DfProfiles[col])

RECURSIVE WeightedEnergy(_, _)
WeightedEnergy(ids, cols) ==
    IF cols = {} THEN 0
    ELSE LET col == CHOOSE c \in cols : TRUE
         IN  Cardinality({i \in 1..Len(ids) : ids[i] = col}) * AnnualEnergy(col)
             + WeightedEnergy(ids, cols \ {col})

\* synthetic annual total in Wh of one cell: each profile as often as listed
CellSyntheticTotal(meta, g) ==
    WeightedEnergy(meta[g].cell_profile_ids, AllColumns)

RECURSIVE SumCellTotals(_, _)
SumCellTotals(meta, cells) ==
    IF cells = {} THEN 0
    ELSE LET g == CHOOSE c \in cells : TRUE
         IN  CellSyntheticTotal(meta, g) + SumCellTotals(meta, cells \ {g})

CellsOfRegion(meta, nuts3) == {g \in DOMAIN meta : meta[g].nuts3 = nuts3}

\* synthetic annual total in Wh of one region
SyntheticAnnualTotal(meta, nuts3) ==
    SumCellTotals(meta, CellsOfRegion(meta, nuts3))

FactorOf(row, year) == IF year = 2035 THEN row.factor_2035 ELSE row.factor_2050

\* f is the quotient of demand_mwha (in MWh) by total_wh (in Wh), as float
\* division gives it: not a number for 0/0, infinite for x/0
IsQuotient(f, demand_mwha, total_wh) ==
    IF total_wh = 0
    THEN f.k = (IF demand_mwha = 0 THEN "nan" ELSE "inf")
    ELSE /\ f.k = "num"
         /\ f.d > 0
         /\ f.n * total_wh = demand_mwha * 1000000 * f.d

\* C5: after the reconciler has returned, every cell of every region holds
\* for each scenario year the factor demand[region, year] / synthetic total
\* of the region, the total counting a profile as often as the cells of the
\* region list it; all cells of a region hold the same factor.
C5_FactorIsDemandOverTotal ==
    ReconcilerReturned =>
        \A g \in DOMAIN metadata : \A y \in ScenarioYears :
            /\ <<y, metadata[g].nuts3>> \in DOMAIN demand_regio
            /\ IsQuotient(FactorOf(metadata[g], y),
                          demand_regio[<<y, metadata[g].nuts3>>],
                          SyntheticAnnualTotal(metadata, metadata[g].nuts3))
            /\ \A h \in CellsOfRegion(metadata, metadata[g].nuts3) :
                   FactorOf(metadata[h], y) = FactorOf(metadata[g], y)

\* C5 witness: the reconciler has returned for two cells of one region that
\* both hold profiles, with a factor that is a positive number for 2035.
C5_Witness ==
    /\ ReconcilerReturned
    /\ \E g, h \in DOMAIN metadata :
           /\ g # h
           /\ metadata[g].nuts3 = metadata[h].nuts3
           /\ metadata[g].cell_profile_ids # <<>>
           /\ metadata[h].cell_profile_ids # <<>>
           /\ metadata[g].factor_2035.k = "num"
           /\ metadata[g].factor_2035.n > 0

\* n/d as a number, the sum of two and the product with an integer
RatPlus(a, b) ==
    LET n == a.n * b.d + b.n * a.d
        d == a.d * b.d
    IN  [n |-> n \div GCD(n, d), d |-> d \div GCD(n, d)]

RECURSIVE ScaledEnergy(_, _, _)
ScaledEnergy(meta, cells, year) ==
    IF cells = {} THEN [n |-> 0, d |-> 1]
    ELSE LET g == CHOOSE c \in cells : TRUE
             f == FactorOf(meta[g], year)
         IN  RatPlus([n |-> f.n * CellSyntheticTotal(meta, g), d |-> f.d],
                     ScaledEnergy(meta, cells \ {g}, year))

\* C6: after the reconciler has returned, for every region with cells and
\* every scenario year the cells' factor times synthetic annual total, summed
\* over the region, is the authoritative demand of the region and year.
C6_ScaledTotalsMatchDemand ==
    ReconcilerReturned =>
        \A r \in {metadata[g].nuts3 : g \in DOMAIN metadata} :
            \A y \in ScenarioYears :
                LET cells  == CellsOfRegion(metadata, r)
                    scaled == ScaledEnergy(metadata, cells, y)
                IN  /\ \A g \in cells : FactorOf(metadata[g], y).k = "num"
                    /\ scaled.n = demand_regio[<<y, r>>] * 1000000 * scaled.d

\* C7: every row of the table the run has written holds, for both scenario
\* years, a factor that is set, finite and strictly positive.
C7_PersistedFactorsPositiveFinite ==
    pc = "done" =>
        \A row \in table.rows : \A y \in ScenarioYears :
            /\ FactorOf(row, y).k = "num"
            /\ FactorOf(row, y).n > 0

\* regions that have a cell in the frame
PopulatedRegions == {metadata[g].nuts3 : g \in DOMAIN metadata}

MissingDemand(year) ==
    {r \in PopulatedRegions : <<year, r>> \notin DOMAIN demand_regio}

\* C8: if the demand of a populated region is missing for a scenario year the
\* reconciler does not return; no region is passed and no cell ever holds a
\* factor for a (year, region) pair that has no demand, so neither a default
\* nor any other value is stored in its place; a run ended by the lookup
\* error leaves the table as it found it.
C8_MissingDemandRaises ==
    /\ ReconcilerReturned => \A y \in ScenarioYears : MissingDemand(y) = {}
    /\ \A r \in SeqToSet(adjusted) : \A y \in ScenarioYears :
           <<y, r>> \in DOMAIN demand_regio
    /\ \A g \in DOMAIN metadata : \A y \in ScenarioYears :
           FactorOf(metadata[g], y) # FactorNaN =>
               <<y, metadata[g].nuts3>> \in DOMAIN demand_regio
    /\ (pc = "failed" /\ err = "KeyError") => table = table_before

\* C8 witness: the reconciler has ended with the lookup error at a populated
\* region whose demand is missing for a scenario year.
C8_Witness ==
    /\ pc = "failed"
    /\ err = "KeyError"
    /\ regions_todo # <<>>
    /\ Head(regions_todo) \in PopulatedRegions
    /\ \E y \in ScenarioYears :
           <<y, Head(regions_todo)>> \notin DOMAIN demand_regio
    /\ table = table_before

\* C9: when the run has ended and the demand of some populated region was
\* missing for one scenario year only, the table holds for every cell the
\* factor of the other year.
C9_OtherYearStillStored ==
    (/\ pc \in {"done", "failed"}
     /\ metadata # <<>>
     /\ \A g \in DOMAIN metadata : metadata[g].sampled) =>
        \A y \in ScenarioYears :
            (/\ MissingDemand(y) = {}
             /\ \E z \in ScenarioYears : MissingDemand(z) # {}) =>
                \A g \in DOMAIN metadata :
                    \E row \in table.rows :
                        /\ row.grid_id = g
                        /\ row.cell_id = metadata[g].cell_id
                        /\ IsQuotient(FactorOf(row, y),
                               demand_regio[<<y, metadata[g].nuts3>>],
                               SyntheticAnnualTotal(metadata, metadata[g].nuts3))

\* C10: the regions the reconciler produces a factor for are exactly the
\* regions of the cells of its input; a region that has a demand and no cell
\* is not visited and does not make the reconciler fail: it ends with the
\* lookup error only when a populated region lacks a demand.
C10_OnlyPopulatedRegions ==
    /\ SeqToSet(adjusted) \subseteq PopulatedRegions
    /\ SeqToSet(regions_todo) \subseteq PopulatedRegions
    /\ ReconcilerReturned => SeqToSet(adjusted) = PopulatedRegions
    /\ (pc = "failed" /\ err = "KeyError" /\ metadata # <<>>) =>
           \E y \in ScenarioYears : MissingDemand(y) # {}

\* C10 witness: the reconciler has returned although a region without any
\* cell has a demand for 2035; that region was not visited.
C10_Witness ==
    /\ ReconcilerReturned
    /\ \E r \in Nuts3Set :
           /\ r \notin PopulatedRegions
           /\ <<2035, r>> \in DOMAIN demand_regio
           /\ r \notin SeqToSet(adjusted)

---------------------------------------------------------------------------
\* Properties of the aggregation

\* the last call has computed its series
AggComputed == agg.mvgd_profiles # <<>>

\* rows of the cell table that the map joins to substation sid
SubstRows(sid) ==
    {row \in table.rows :
        row.cell_id \in DOMAIN subst_map /\ subst_map[row.cell_id] = sid}

\* energy in Wh at timestep t of the profiles one row lists, each as often
\* as listed
RECURSIVE RowStepEnergy(_, _, _)
RowStepEnergy(row, cols, t) ==
    IF cols = {} THEN 0
    ELSE LET col == CHOOSE c \in cols : TRUE
             n   == Cardinality({i \in 1..Len(row.cell_profile_ids) :
                        /\ row.cell_profile_ids[i][1] = col[1]
                        /\ FromDbText(row.cell_profile_ids[i][2]) = col[2]})
         IN  n * DfProfiles[col][t] + RowStepEnergy(row, cols \ {col}, t)

RECURSIVE RowsStepEnergy(_, _)
RowsStepEnergy(rows, t) ==
    IF rows = {} THEN 0
    ELSE LET r == CHOOSE x \in rows : TRUE
         IN  RowStepEnergy(r, AllColumns, t) + RowsStepEnergy(rows \ {r}, t)

\* the distinct (region, factor) combinations among rows for a year
Combinations(rows, year) ==
    {<<r.nuts3, FactorOf(r, year)>> :
        r \in {x \in rows : x.nuts3 \in Nuts3Set /\ FactorOf(x, year).k # "nan"}}

CombinationRows(rows, year, c) ==
    {r \in rows : r.nuts3 = c[1] /\ FactorOf(r, year) = c[2]}

\* sum over the combinations with a finite factor of factor times energy at t
RECURSIVE CombinationsSum(_, _, _, _)
CombinationsSum(rows, year, combos, t) ==
    IF combos = {} THEN [n |-> 0, d |-> 1]
    ELSE LET c == CHOOSE x \in combos : TRUE
             e == RowsStepEnergy(CombinationRows(rows, year, c), t)
         IN  RatPlus([n |-> c[2].n * e, d |-> c[2].d],
                     CombinationsSum(rows, year, combos \ {c}, t))

\* v, a value in kWh, is the sum over the combinations of rows of factor times
\* the energy in Wh at t: infinite factors give inf, or nan against energy 0
IsCombinationSum(v, rows, year, t) ==
    LET combos == Combinations(rows, year)
        infs   == {c \in combos : c[2].k = "inf"}
        nums   == combos \ infs
        total  == CombinationsSum(rows, year, nums, t)
    IN  IF \E c \in infs : RowsStepEnergy(CombinationRows(rows, year, c), t) = 0
        THEN v.k = "nan"
        ELSE IF infs # {} THEN v.k = "inf"
        ELSE /\ v.k = "num"
             /\ v.d > 0
             /\ v.n * total.d * 1000 = total.n * v.d

\* C11: the series the aggregation computes for a scenario year and a
\* substation has the length of the profiles and is, at every timestep, the
\* sum over the distinct (region, factor) combinations among the cells of
\* the substation of factor times the sum of the profiles the cells of the
\* combination list (profiles in Wh, the series in kWh); a substation is
\* given a series exactly when the map joins a cell to it.
C11_SeriesIsSumOverCombinations ==
    AggComputed =>
        /\ DOMAIN agg.mvgd_profiles = {sid \in SubstIds : SubstRows(sid) # {}}
        /\ \A sid \in DOMAIN agg.mvgd_profiles :
               /\ Len(agg.mvgd_profiles[sid]) = Timesteps
               /\ \A t \in 1..Timesteps :
                      IsCombinationSum(agg.mvgd_profiles[sid][t], SubstRows(sid),
                                       agg.scenario_year, t)

\* C11 witness: a series was computed for a substation whose cells lie in two
\* regions with different finite factors, both cells listing profiles.
C11_Witness ==
    /\ AggComputed
    /\ \E sid \in DOMAIN agg.mvgd_profiles :
           \E a, b \in Combinations(SubstRows(sid), agg.scenario_year) :
               /\ a[1] # b[1]
               /\ a[2] # b[2]
               /\ a[2].k = "num" /\ b[2].k = "num"
               /\ a[2].n > 0 /\ b[2].n > 0
               /\ \A t \in 1..Timesteps : agg.mvgd_profiles[sid][t].k = "num"

\* the last call has ended with its rows inserted
AggSucceeded == agg.pc = "idle" /\ agg.calls > 0 /\ agg.err = ""

\* rows of the series table with the key (version, scn_name) of the last call
OwnRows ==
    {row \in etrago.rows :
        row.version = agg.version /\ row.scn_name = agg.scenario_name}

\* annual energy in Wh of the profiles one row lists
RowAnnualEnergy(row) ==
    SeqSum([t \in 1..Timesteps |-> RowStepEnergy(row, AllColumns, t)])

\* sum over rows of factor times annual energy, the factors being numbers
RECURSIVE RowsScaledEnergy(_, _)
RowsScaledEnergy(rows, year) ==
    IF rows = {} THEN [n |-> 0, d |-> 1]
    ELSE LET r == CHOOSE x \in rows : TRUE
             f == FactorOf(r, year)
         IN  RatPlus([n |-> f.n * RowAnnualEnergy(r), d |-> f.d],
                     RowsScaledEnergy(rows \ {r}, year))

\* sum of the values of a series, the values being numbers
RECURSIVE SeriesTotal(_)
SeriesTotal(series) ==
    IF series = <<>> THEN [n |-> 0, d |-> 1]
    ELSE RatPlus([n |-> Head(series).n, d |-> Head(series).d],
                 SeriesTotal(Tail(series)))

\* C12: for every substation and scenario year the annual total of the
\* persisted series (kWh) is the sum over all cells the map joins to the
\* substation of the cell's factor times the annual energy of the profiles
\* the cell lists (Wh); every cell of the substation enters the sum with a
\* factor that is a number.
C12_SeriesTotalIsSumOverCells ==
    AggSucceeded =>
        \A row \in OwnRows :
            LET cells == SubstRows(row.subst_id)
                total == SeriesTotal(row.p_set)
                cellsum == RowsScaledEnergy(cells, agg.scenario_year)
            IN  /\ \A c \in cells : FactorOf(c, agg.scenario_year).k = "num"
                /\ \A t \in 1..Len(row.p_set) : row.p_set[t].k = "num"
                /\ total.n * cellsum.d * 1000 = cellsum.n * total.d

\* C13: a call for a (version, scenario name) that already has rows in the
\* series table, with any value of drop_table, ends without error and leaves
\* for that (version, scenario name) exactly the rows of this call, one per
\* substation: the earlier rows are replaced.
C13_RerunReplacesRows ==
    (agg.pc = "idle" /\ agg.calls > 0 /\ agg.rerun) =>
        /\ agg.err = ""
        /\ OwnRows = EtragoRows(agg.mvgd_profiles, agg.version, agg.scenario_name)
        /\ \A a, b \in etrago.rows : KeyOf(a) = KeyOf(b) => a = b

---------------------------------------------------------------------------
\* Properties of the stage as a whole

\* C14: in every state of a run of the stage, the states after a failure
\* or an abort at any step included, the cell table holds either the complete
\* earlier result or the complete new result: it is never absent, never
\* empty and never holds a part of the rows.
C14_TableReplacedAtomically ==
    \/ table = table_before
    \/ /\ ReconcilerReturned
       /\ table.exists
       /\ table.rows = TableRows(metadata)

\* C15: every step of every call of the aggregation, for any sequence of
\* scenario years, leaves the cell table as it is (profile references,
\* region ids and both factors of every row) and draws nothing: the
\* generator, the sampled frame and the draws stay as the stage left them.
C15_AggregationLeavesCellTable ==
    [][agg' # agg =>
          /\ table' = table
          /\ rng' = rng
          /\ metadata' = metadata
          /\ cell_draws' = cell_draws]_vars

\* C15 witness: two calls, one for each scenario year, have both inserted
\* their series while the cell table holds the rows of the run.
C15_Witness ==
    /\ agg.pc = "idle"
    /\ agg.calls = 2
    /\ pc = "done"
    /\ table.rows = TableRows(metadata)
    /\ \E a, b \in etrago.rows : a.scn_name = "eGon2035" /\ b.scn_name = "eGon100RE"

\* C16: every step of the reconciler, the step that ends it with an error
\* included, leaves the frame with the same cells and, for every cell, the
\* same list of (type, profile id) pairs in the same order, the same cell id
\* and the same region ids nuts3 and nuts1: only the factors change.
C16_ReconcilerChangesOnlyFactors ==
    [][pc = "adjust" =>
          /\ DOMAIN metadata' = DOMAIN metadata
          /\ \A g \in DOMAIN metadata :
                 /\ metadata'[g].cell_profile_ids = metadata[g].cell_profile_ids
                 /\ metadata'[g].cell_id = metadata[g].cell_id
                 /\ metadata'[g].nuts3 = metadata[g].nuts3
                 /\ metadata'[g].nuts1 = metadata[g].nuts1]_vars

\* C16 witness: the reconciler has ended with the lookup error after it set
\* the factor of 2035 of a cell that still holds the profiles it drew.
C16_Witness ==
    /\ pc = "failed"
    /\ err = "KeyError"
    /\ \E g \in DOMAIN metadata :
           /\ metadata[g].factor_2035.k = "num"
           /\ metadata[g].factor_2050.k = "nan"
           /\ metadata[g].cell_profile_ids # <<>>
           /\ metadata[g].cell_profile_ids = Flatten(cell_draws[g])

\* the sum of a sequence of rationals n/d, not reduced
RECURSIVE RatSum(_)
RatSum(rs) ==
    IF rs = <<>> THEN [n |-> 0, d |-> 1]
    ELSE LET rest == RatSum(Tail(rs))
         IN  [n |-> Head(rs).n * rest.d + rest.n * Head(rs).d,
              d |-> Head(rs).d * rest.d]

GroupCount(code) ==
    SumOver(dist_households, SeqToSet(MAPPING_ZENSUS_HH_SUBGROUPS[code]))

GroupShares(code) ==
    [k \in 1..Len(MAPPING_ZENSUS_HH_SUBGROUPS[code]) |->
        shares[MAPPING_ZENSUS_HH_SUBGROUPS[code][k]]]

GroupNormalised(code) ==
    /\ shares # <<>>
    /\ \A k \in 1..Len(groups_todo) : groups_todo[k] # code

\* C17: once a subgroup of MAPPING_ZENSUS_HH_SUBGROUPS has been normalised
\* and its household sum in the federal state is not zero, the share of each
\* of its types is a number in [0, 1] and the shares of its types add up to 1.
C17_SharesOfGroupSumToOne ==
    \A code \in 1..5 :
        (GroupNormalised(code) /\ GroupCount(code) # 0) =>
            /\ \A k \in 1..Len(GroupShares(code)) :
                   /\ ~GroupShares(code)[k].nan
                   /\ GroupShares(code)[k].d > 0
                   /\ 0 <= GroupShares(code)[k].n
                   /\ GroupShares(code)[k].n <= GroupShares(code)[k].d
            /\ RatSum(GroupShares(code)).n = RatSum(GroupShares(code)).d

\* C17 witness: the loop is through; the subgroup of three types has a
\* share strictly between 0 and 1, the one of a single type has share 1 and
\* another subgroup has no household at all.
C17_Witness ==
    /\ pc = "normalised"
    /\ GroupCount(4) # 0
    /\ ~shares["P2"].nan
    /\ 0 < shares["P2"].n
    /\ shares["P2"].n < shares["P2"].d
    /\ GroupCount(3) # 0
    /\ shares["SK"].n = shares["SK"].d
    /\ GroupCount(5) = 0

\* the subgroups the census rows of the model ask for that hold no household
DegenerateGroups ==
    {code \in ZensusCodes :
        SumOver(dist_households,
                SeqToSet(MAPPING_ZENSUS_HH_SUBGROUPS[code])
                    \cap DOMAIN dist_households) = 0}

\* C18: when a subgroup holds no household in the federal state, the stage
\* ends with an error before the cell table is built, and no row given to
\* the cell model or to the sampler holds a share or an expected count that
\* is not a number.
C18_DegenerateGroupStopsTheStage ==
    /\ (DegenerateGroups # {} /\ pc # "cells") =>
           (pc = "failed" /\ zensus_cells = <<>> /\ metadata = <<>>)
    /\ \A i \in 1..Len(zensus_cells) : ~zensus_cells[i].hh_10types.nan

\* every cell of the frame has been given its profiles
AllCellsSampled ==
    /\ metadata # <<>>
    /\ \A g \in DOMAIN metadata : metadata[g].sampled

RegionCells(nuts3) == {g \in DOMAIN metadata : metadata[g].nuts3 = nuts3}

\* the rows of df_zensus_cells of one type in the cells of one region
RegionRows(nuts3, hh_type) ==
    LET Member(r) == /\ r.grid_id \in RegionCells(nuts3)
                     /\ r.hh_type = hh_type
    IN  SelectSeq(zensus_cells, Member)

RegionCountsDefined(nuts3, hh_type) ==
    \A i \in 1..Len(RegionRows(nuts3, hh_type)) :
        ~RegionRows(nuts3, hh_type)[i].hh_10types.nan

\* the number of profiles of one type the cells of one region hold
RECURSIVE SampledInCells(_, _)
SampledInCells(cells, hh_type) ==
    IF cells = {} THEN 0
    ELSE LET g == CHOOSE h \in cells : TRUE
         IN  Cardinality(PositionsOfType(metadata[g].cell_profile_ids, hh_type))
                 + SampledInCells(cells \ {g}, hh_type)

\* the rounded sum of the expected counts of the rows
RoundedRegionalSum(rows) ==
    LET total == RatSum([i \in 1..Len(rows) |-> rows[i].hh_10types])
    IN  Rint(total.n, total.d)

\* the sum of the sample sizes of the rows of one type of one cell, each
\* rounded on its own; a row whose count is not a number counts with the
\* number of ids that were drawn for it
RECURSIVE RowWiseInCell(_, _, _)
RowWiseInCell(g, hh_type, i) ==
    IF i > Len(DfCell(zensus_cells, g)) THEN 0
    ELSE LET row == DfCell(zensus_cells, g)[i]
         IN  (IF row.hh_type # hh_type THEN 0
              ELSE IF row.hh_10types.nan THEN Len(cell_draws[g][i].ids)
              ELSE Rint(row.hh_10types.n, row.hh_10types.d))
             + RowWiseInCell(g, hh_type, i + 1)

RECURSIVE RowWiseInCells(_, _)
RowWiseInCells(cells, hh_type) ==
    IF cells = {} THEN 0
    ELSE LET g == CHOOSE h \in cells : TRUE
         IN  RowWiseInCell(g, hh_type, 1) + RowWiseInCells(cells \ {g}, hh_type)

\* C19 as stated: once every cell is sampled, for every region and type whose
\* expected counts are all numbers, the number of profiles of the type in
\* the cells of the region is the sum of the expected counts of the type
\* over those cells, rounded to the nearest integer.
C19_RegionCountIsRoundedSum ==
    AllCellsSampled =>
        \A nuts3 \in Nuts3Set : \A t \in HHTypes :
            RegionCountsDefined(nuts3, t) =>
                SampledInCells(RegionCells(nuts3), t)
                    = RoundedRegionalSum(RegionRows(nuts3, t))

\* C19 amended: once every cell is sampled, for every region and type the
\* number of profiles of the type in the cells of the region is the sum,
\* over the rows of the type in those cells, of the row's own expected count
\* rounded to the nearest integer.
C19_RegionCountIsSumOfRoundedRows ==
    AllCellsSampled =>
        \A nuts3 \in Nuts3Set : \A t \in HHTypes :
            SampledInCells(RegionCells(nuts3), t)
                = RowWiseInCells(RegionCells(nuts3), t)

\* C19 witness: a region of two sampled cells whose rows round to a sum
\* that is not the rounded sum of their expected counts, one row having
\* been given a profile.
C19_Witness ==
    /\ AllCellsSampled
    /\ \E nuts3 \in Nuts3Set : \E t \in HHTypes :
           /\ Cardinality(RegionCells(nuts3)) = 2
           /\ RegionCountsDefined(nuts3, t)
           /\ SampledInCells(RegionCells(nuts3), t) > 0
           /\ SampledInCells(RegionCells(nuts3), t)
                  = RowWiseInCells(RegionCells(nuts3), t)
           /\ SampledInCells(RegionCells(nuts3), t)
                  # RoundedRegionalSum(RegionRows(nuts3, t))

\* the pairs of a row of the table, as read back from the database
RowPairs(row) ==
    [i \in 1..Len(row.cell_profile_ids) |->
        <<row.cell_profile_ids[i][1], FromDbText(row.cell_profile_ids[i][2])>>]

\* every pair of the rows this run inserted names a column of df_profiles:
\* a frame with a pair that does not never gets as far as the insert, the
\* profile sum of line 696 raises KeyError before
InsertedPairsResolve ==
    pc = "done" => \A row \in table.rows \ table_before.rows :
                       Resolves(RowPairs(row))

C21_UnresolvedPairAborts ==
    [][/\ (/\ pc = "adjust"
           /\ regions_todo # <<>>
           /\ ~Resolves(Nuts3ProfileIds(metadata, Head(regions_todo))))
          => (/\ pc' = "failed"
              /\ err' = "KeyError"
              /\ metadata' = metadata
              /\ table' = table)
       /\ (/\ agg.pc = "compute"
           /\ \E r \in CellsQuery(table, subst_map) :
                  ~Resolves(r.cell_profile_ids))
          => (/\ agg'.pc = "idle"
              /\ agg'.err = "KeyError"
              /\ etrago' = etrago)]_vars

\* C21 witness: the reconciler has ended with KeyError on a frame whose cell
\* lists a profile and has no factor, and a call of the aggregation over a
\* table with a pair that is no column has ended with KeyError and no row.
C21_Witness ==
    /\ pc = "failed"
    /\ err = "KeyError"
    /\ \E g \in DOMAIN metadata :
           /\ metadata[g].cell_profile_ids # <<>>
           /\ metadata[g].factor_2035.k = "nan"
           /\ metadata[g].factor_2050.k = "nan"
    /\ agg.pc = "idle"
    /\ agg.err = "KeyError"
    /\ etrago.rows = {}
    /\ \E r \in CellsQuery(table, subst_map) : ~Resolves(r.cell_profile_ids)

\* the rows of df_zensus_cells for one census row and one fine type
RowsOfCensusRow(h, hh_type) ==
    LET Member(r) == /\ r.grid_id = h.grid_id
                     /\ r.code = h.code
                     /\ r.hh_type = hh_type
    IN  SelectSeq(zensus_cells, Member)

\* the census rows of cells that lie in a federal state
CensusRowsInState ==
    {households_typ[k] : k \in {j \in DOMAIN households_typ :
                                   GenOf(households_typ[j].nuts3) # NoRegion}}

RECURSIVE FineTypesOf(_)
FineTypesOf(hs) ==
    IF hs = {} THEN 0
    ELSE LET h == CHOOSE x \in hs : TRUE
         IN  Len(MAPPING_ZENSUS_HH_SUBGROUPS[h.code]) + FineTypesOf(hs \ {h})

\* x is the number hh_5types * count / total
IsProductWithShare(x, hh_5types, count, total) ==
    /\ ~x.nan
    /\ x.d > 0
    /\ x.n >= 0
    /\ total > 0
    /\ x.n * total = hh_5types * count * x.d

EmitsOneRowPerFineType ==
    /\ \A h \in CensusRowsInState :
           \A t \in SeqToSet(MAPPING_ZENSUS_HH_SUBGROUPS[h.code]) :
               /\ Len(RowsOfCensusRow(h, t)) = 1
               /\ IsProductWithShare(
                      RowsOfCensusRow(h, t)[1].hh_10types, h.hh_5types,
                      dist_households[t],
                      SumOver(dist_households,
                              SeqToSet(MAPPING_ZENSUS_HH_SUBGROUPS[h.code])
                                  \cap DOMAIN dist_households))
    /\ Len(zensus_cells) = FineTypesOf(CensusRowsInState)

\* C22: once the cell table is built, it holds for every census row of a
\* cell in a federal state exactly one row per fine type of the row's
\* category, whose expected count is the non-negative number hh_5types
\* times the share of the type in that state, and it holds no other row.
C22_OneRowPerFineType ==
    zensus_cells # <<>> => EmitsOneRowPerFineType

\* the same when every subgroup the census rows ask for holds a household
OneRowPerFineTypeUnlessDegenerate ==
    (zensus_cells # <<>> /\ DegenerateGroups = {}) => EmitsOneRowPerFineType

\* h is the smallest whole number with h * size >= people
IsSmallestCover(h, size, people) ==
    /\ h >= 0
    /\ h * size.n * people.d >= people.n * size.d
    /\ h > 0 => (h - 1) * size.n * people.d < people.n * size.d

\* C23: inhabitants_to_households returns, for every household type of the
\* table, the ceiling of the persons by the persons per household of the
\* type: a whole number h, the smallest with h * size >= persons, for the
\* sizes 1 and 2 as for the estimated size of OR and OO; where that size is
\* not a number, neither is the result.
C23_HouseholdsAreCeiledQuotients ==
    pc = "mapped" =>
        /\ DOMAIN df_households_by_type = DOMAIN df_hh_types_nad_abs
        /\ \A t \in DOMAIN df_households_by_type :
               LET h    == df_households_by_type[t]
                   size == mapping_people_in_households[t]
               IN  IF size.nan THEN h.nan
                   ELSE /\ ~h.nan
                        /\ h.d = 1
                        /\ IsSmallestCover(h.n, size, df_hh_types_nad_abs[t])
                        /\ t \in {"SR", "SO", "SK"} => size = Rat(1, 1)
                        /\ t \in {"PR", "PO", "P1", "P2", "P3"} => size = Rat(2, 1)

\* C23 witness: one person in households of two makes one household, and
\* persons in households of an estimated size that is no whole number make
\* one.
C23_Witness ==
    /\ pc = "mapped"
    /\ \E t \in DOMAIN df_households_by_type \cap {"PR", "PO", "P1", "P2", "P3"} :
           /\ df_hh_types_nad_abs[t] = Rat(1000, 1000)
           /\ df_households_by_type[t] = Rat(1, 1)
    /\ \E t \in DOMAIN df_households_by_type \cap {"OR", "OO"} :
           /\ ~mapping_people_in_households[t].nan
           /\ mapping_people_in_households[t].n % mapping_people_in_households[t].d # 0
           /\ df_households_by_type[t] = Rat(1, 1)

\* the age class is in the list
InBucket(a, ages) == \E i \in 1..Len(ages) : ages[i] = a

\* every age class is in exactly one of kids, adults and seniors, once
AgeClassesPartitioned ==
    /\ SeqToSet(kids) \cup SeqToSet(adults) \cup SeqToSet(seniors) = AgeClasses
    /\ Len(kids) + Len(adults) + Len(seniors) = Cardinality(AgeClasses)
    /\ \A a \in AgeClasses :
           /\ ~(InBucket(a, kids) /\ InBucket(a, adults))
           /\ ~(InBucket(a, kids) /\ InBucket(a, seniors))
           /\ ~(InBucket(a, adults) /\ InBucket(a, seniors))

\* the census table without its entries of the age classes of kids
WithoutKids(tbl) ==
    [k \in {x \in DOMAIN tbl : ~InBucket(x[3], kids)} |-> tbl[k]]

\* C24: each of the 11 age classes is in exactly one of the lists kids,
\* adults and seniors, no household type of HH_TYPES names the column Kids,
\* and the persons per household type that get_hh_dist returns are the same
\* as for the census table without the persons of the age classes of kids
\* (stated where get_hh_dist has just returned).
C24_KidsAreDiscarded ==
    /\ AgeClassesPartitioned
    /\ \A t \in DOMAIN HH_TYPES : \A code \in HH_TYPES[t] : code[3] # "Kids"
    /\ pc = "hh_size" =>
           df_hh_types_nad_abs =
               GetHhDist(ProcessNuts1ZensusData(WithoutKids(households)),
                         HH_TYPES, FALSE, FALSE)

\* C24 witness: the census table lists persons of 6 to 14 and persons of
\* 15 to 17 in one kind of household, and get_hh_dist counts one person.
C24_Witness ==
    /\ pc = "hh_size"
    /\ \E k1, k2 \in DOMAIN households :
           /\ k1[3] = "6 - 14"
           /\ k2[3] = "15 - 17"
           /\ k1[1] = k2[1]
           /\ k1[2] = k2[2]
           /\ households[k2] = 1
           /\ \E t \in DOMAIN df_hh_types_nad_abs :
                  /\ <<k2[1], k2[2], "Adults">> \in HH_TYPES[t]
                  /\ df_hh_types_nad_abs[t] = Rat(1000, 1000)

\* the persons of the multi-person households without information on kids
MultiPersonGroup == SumOver(df_zensus, HH_TYPES["OO"])

\* C25: where get_hh_dist has returned to houseprofiles_in_census_cells,
\* the persons of the multi-person group are split into the parts OO, O1
\* and O2 with the shares 0.703, 0.216 and 0.081, and the three parts add
\* up to the persons of the group.
C25_MultiPersonGroupIsSplit ==
    (pc = "hh_size" /\ MultiPersonGroup > 0) =>
        /\ {"OO", "O1", "O2"} \subseteq DOMAIN df_hh_types_nad_abs
        /\ df_hh_types_nad_abs["OO"] = Rat(703 * MultiPersonGroup, 1000)
        /\ df_hh_types_nad_abs["O1"] = Rat(216 * MultiPersonGroup, 1000)
        /\ df_hh_types_nad_abs["O2"] = Rat(81 * MultiPersonGroup, 1000)
        /\ df_hh_types_nad_abs["OO"].n + df_hh_types_nad_abs["O1"].n
               + df_hh_types_nad_abs["O2"].n = 1000 * MultiPersonGroup

\* the pairs a cell gets when it is the only cell sampled after
\* random.seed(seed)
SampledAlone(g) ==
    GetCellDemandProfileIds(DfCell(zensus_cells, g), seed, 0).ids

\* C26: with the generator seeded before the sampler is called, the pairs a
\* cell receives are those it receives when it is sampled alone with that
\* seed, whatever other cells are sampled before it.
C26_CellIdsIndependentOfOtherCells ==
    \A g \in DOMAIN metadata :
        metadata[g].sampled => metadata[g].cell_profile_ids = SampledAlone(g)

\* the reconciler has gone through the region of every cell of the frame
AllCellsReconciled ==
    /\ regions_todo = <<>>
    /\ \A g \in DOMAIN metadata : metadata[g].nuts3 \in SeqToSet(adjusted)

\* C27: in a run of the stage the reconciler works only on a frame in which
\* every cell is sampled, so a region has a factor only when all its cells
\* are sampled; the table is touched only after the reconciler has gone
\* through the region of every cell, and the rows the run stores are the
\* rows of that reconciled frame.
C27_SampledThenReconciledThenStored ==
    /\ pc \in {"adjust", "drop", "create", "insert", "done"} => AllCellsSampled
    /\ \A g \in DOMAIN metadata :
           (metadata[g].factor_2035.k # "nan" \/ metadata[g].factor_2050.k # "nan")
               => \A h \in DOMAIN metadata :
                      metadata[h].nuts3 = metadata[g].nuts3 => metadata[h].sampled
    /\ pc \in {"drop", "create", "insert", "done"} => AllCellsReconciled
    /\ table # table_before =>
           (pc \in {"create", "insert", "done"} /\ AllCellsReconciled)
    /\ pc = "done" => table.rows = TableRows(metadata)

\* C27 witness: a finished run that stored the rows of two cells of one
\* region, both with profiles and with the factor the reconciler set.
C27_Witness ==
    /\ pc = "done"
    /\ table.rows = TableRows(metadata)
    /\ Cardinality(table.rows) = 2
    /\ adjusted # <<>>
    /\ \A g \in DOMAIN metadata :
           /\ metadata[g].cell_profile_ids # <<>>
           /\ metadata[g].factor_2035.k = "num"
           /\ metadata[g].nuts3 = adjusted[1]

\* how often the lists of the cells in cellset name the column col, lists
\* being a function from cells to lists of (type, id) pairs
RECURSIVE References(_, _, _)
References(lists, cellset, col) ==
    IF cellset = {} THEN 0
    ELSE LET g == CHOOSE x \in cellset : TRUE
         IN  Cardinality({i \in 1..Len(lists[g]) : lists[g][i] = col})
                 + References(lists, cellset \ {g}, col)

\* energy in Wh at timestep t: every column of cols times the number of
\* times the cells name it
RECURSIVE ReferencedEnergy(_, _, _, _)
ReferencedEnergy(lists, cellset, cols, t) ==
    IF cols = {} THEN 0
    ELSE LET col == CHOOSE c \in cols : TRUE
         IN  References(lists, cellset, col) * DfProfiles[col][t]
                 + ReferencedEnergy(lists, cellset, cols \ {col}, t)

ReferencedAnnualEnergy(lists, cellset) ==
    SeqSum([t \in 1..Timesteps |->
               ReferencedEnergy(lists, cellset, AllColumns, t)])

\* the lists of the frame of cell metadata, by grid_id
FrameLists == [g \in DOMAIN metadata |-> metadata[g].cell_profile_ids]

\* the lists of rows of the table, by cell_id, the ids as integers
RowLists(rows) ==
    [c \in {r.cell_id : r \in rows} |->
        LET r == CHOOSE x \in rows : x.cell_id = c
        IN  [i \in 1..Len(r.cell_profile_ids) |->
                <<r.cell_profile_ids[i][1],
                  FromDbText(r.cell_profile_ids[i][2])>>]]

\* v, a value in kWh, is factor times energy (Wh) over 1000
IsScaledEnergy(v, factor, energy) ==
    IF factor.k = "inf"
    THEN v.k = (IF energy = 0 THEN "nan" ELSE "inf")
    ELSE /\ v.k = "num"
         /\ v.d > 0
         /\ v.n * factor.d * 1000 = factor.n * energy * v.d

\* C28: profile references are summed with multiplicity. The factors the
\* reconciler gives the cells of a region are the demands of the region over
\* the synthetic annual total in which every profile counts as many times as
\* the cells of the region name it; the series the aggregation computes for a
\* substation whose cells form one (region, factor) group is the factor times
\* the sum in which every profile counts as many times as the cells of the
\* group name it.
C28_ReferencesSummedWithMultiplicity ==
    /\ \A i \in 1..Len(adjusted) :
           LET region == {g \in DOMAIN metadata : metadata[g].nuts3 = adjusted[i]}
               total  == ReferencedAnnualEnergy(FrameLists, region)
           IN  \A g \in region :
                   /\ metadata[g].factor_2035 =
                          ScalingFactor(demand_regio[<<2035, adjusted[i]>>], total)
                   /\ metadata[g].factor_2050 =
                          ScalingFactor(demand_regio[<<2050, adjusted[i]>>], total)
    /\ AggComputed =>
           \A sid \in DOMAIN agg.mvgd_profiles :
               LET combos == Combinations(SubstRows(sid), agg.scenario_year)
               IN  Cardinality(combos) = 1 =>
                       LET c     == CHOOSE x \in combos : TRUE
                           group == CombinationRows(SubstRows(sid),
                                                    agg.scenario_year, c)
                           lists == RowLists(group)
                       IN  \A t \in 1..Timesteps :
                               IsScaledEnergy(
                                   agg.mvgd_profiles[sid][t], c[2],
                                   ReferencedEnergy(lists, DOMAIN lists,
                                                    AllColumns, t))

\* C28 witness: two cells of one region name the same profile, the reconciler
\* has given both the factor over the total that counts the profile twice,
\* and the aggregation has computed the series of the substation of both.
C28_Witness ==
    /\ pc = "done"
    /\ AggComputed
    /\ \E g, h \in DOMAIN metadata :
           /\ g # h
           /\ metadata[g].nuts3 = metadata[h].nuts3
           /\ metadata[g].factor_2035.k = "num"
           /\ \E col \in AllColumns :
                  /\ References(FrameLists, {g, h}, col) = 2
                  /\ References(FrameLists, {g}, col) = 1
           /\ \E sid \in DOMAIN agg.mvgd_profiles :
                  /\ {r.grid_id : r \in SubstRows(sid)} = {g, h}
                  /\ Cardinality(Combinations(SubstRows(sid),
                                              agg.scenario_year)) = 1

\* largest id of the numerals the conversion is checked on
MaxId == 120

C30_VariantsAgreeOnSampleSize ==
    \A g \in DOMAIN metadata :
        metadata[g].sampled =>
            LET df_cell == DfCell(zensus_cells, g)
            IN  \A i \in 1..Len(df_cell) :
                    ~df_cell[i].hh_10types.nan =>
                        \A nancast \in NanCasts :
                            Len(cell_draws[g][i].ids)
                                = SampleSizeTools(df_cell[i], nancast)

===========================================================================
